---- MODULE Spec2Model ----
(***************************************************************************)
(* Order placement, product mutation and the cached catalog query of the   *)
(* storefront backend, over one relational store (PostgreSQL through       *)
(* Prisma, default isolation READ COMMITTED) and one Redis cache.          *)
(*                                                                         *)
(* Every await of a handler is a scheduling point, so a handler is a       *)
(* sequence of steps, one per store or cache call.                         *)
(***************************************************************************)
EXTENDS Integers, Sequences, FiniteSets, TLC

VARIABLES
    product,      \* Product table, committed rows: id -> [state, stock, price]
    orders,       \* Order table, committed rows
    orderItems,   \* OrderItem table, committed rows
    rowLock,      \* Product row lock held by an open transaction
    ord,          \* createOrder calls: one record per call
    adm,          \* the product mutation call in progress
    rdr,          \* the getProductList call in progress
    cache,        \* Redis: key -> serialized ProductListResult
    cacheUp,      \* whether Redis answers
    ver,          \* history: number of committed store writes
    done,         \* history: store version covered by completed mutation calls
    lastRead,     \* history: the last completed getProductList call
    keyIn,        \* a pair of query strings given to the catalog endpoint
    keyOut,       \* the cache keys computed for keyIn
    sts,          \* the updateOrderStatus call in progress
    listRows,     \* Product table as the listing query sees it: the rows
                  \* with the columns it filters and sorts by
    listOut,      \* what getProductList made of the query strings of keyIn
                  \* over listRows: key, store query and result of each
    now           \* seconds since the start of the run

vars == <<product, orders, orderItems, rowLock, ord, adm, rdr, cache, cacheUp,
          ver, done, lastRead, keyIn, keyOut, sts, listRows, listOut, now>>

(***************************************************************************)
(* Bounds of the model.                                                    *)
(***************************************************************************)
InitStock == 2       \* stock of every product when it is created
MaxQty == 2          \* largest quantity of an order line
MaxPrice == 2        \* largest unit price
MaxMutations == 1    \* product create/update/delete calls in a run
MaxReads == 2        \* getProductList calls in a run
MaxStatusCalls == 2  \* updateOrderStatus calls in a run
TickSeconds == 1800  \* seconds between two moments of the model's clock
MaxTime == 7200      \* last moment of the model's clock

ProductIds == {"p1", "p2"}
OrderIds == {"o1", "o2"}
UserIds == {"u1", "u2"}
LineCounts == {1, 2}
ClientPrices == {0, 7}
Null == "null"

(***************************************************************************)
(* Order requests: a non-empty list of (productId, quantity) lines, as     *)
(* let through by the route validators.                                    *)
(***************************************************************************)
OrderLines == [productId : ProductIds, quantity : 1..MaxQty]

Requests == UNION {[1..n -> OrderLines] : n \in LineCounts}

(***************************************************************************)
(* Errors and the status the error middleware gives them.                  *)
(***************************************************************************)
NoResp == [status |-> 0, kind |-> "none", product |-> Null, available |-> 0,
           requested |-> 0]

OkResp(s) == [status |-> s, kind |-> "ok", product |-> Null, available |-> 0,
              requested |-> 0]

\* error.middleware.ts: P2025 -> 404, else err.statusCode || 500
errorHandler(err) ==
    IF err.code = "P2025"
    THEN [status |-> 404, kind |-> "record_not_found", product |-> Null,
          available |-> 0, requested |-> 0]
    ELSE [status |-> IF err.statusCode # 0 THEN err.statusCode ELSE 500,
          kind |-> err.kind, product |-> err.product,
          available |-> err.available, requested |-> err.requested]

\* order.service.ts 91-95: not found at the pre-check, statusCode = 404
PreNotFound(pid) ==
    [code |-> "", statusCode |-> 404, kind |-> "not_found", product |-> pid,
     available |-> 0, requested |-> 0]

\* order.service.ts 139-141: not found at the re-read, a plain Error
TxNotFound(pid) ==
    [code |-> "", statusCode |-> 0, kind |-> "not_found", product |-> pid,
     available |-> 0, requested |-> 0]

\* insufficient stock thrown as a plain Error, without a statusCode
InsufficientPlain(pid, avail, qty) ==
    [code |-> "", statusCode |-> 0, kind |-> "insufficient_stock",
     product |-> pid, available |-> avail, requested |-> qty]

\* order.service.ts 100-104 and 144-148: insufficient stock, statusCode = 400
Insufficient(pid, avail, qty) ==
    [code |-> "", statusCode |-> 400, kind |-> "insufficient_stock",
     product |-> pid, available |-> avail, requested |-> qty]

\* a store failure raised by Prisma with its error code
StoreError(c) ==
    [code |-> c, statusCode |-> 0, kind |-> "store_error", product |-> Null,
     available |-> 0, requested |-> 0]

(***************************************************************************)
(* Response bodies (response.util.ts).  A field of a body is undefined,    *)
(* null or set.                                                            *)
(***************************************************************************)
Undefined == "undefined"
Set == "set"

\* response.util.ts 35-47
createBaseResponse(success, message, data, errors) ==
    [success |-> success, message |-> message, object |-> data, errors |-> errors]

\* response.util.ts 79-81
successResponse(message, data) == createBaseResponse("true", message, data, Null)

\* an error response that carries a payload next to its error list
errorResponseWithData(message, errors) ==
    createBaseResponse("false", message, Set, errors)

\* response.util.ts 88-90
errorResponse(message, errors) == createBaseResponse("false", message, Null, errors)

\* res.json(result): the result itself is the body, without an envelope
BareBody ==
    [success |-> Undefined, message |-> Undefined, object |-> Set, errors |-> Undefined]

\* error.middleware.ts 26-53: the body of an error response; the error list
\* is the stack in development mode and null otherwise, and null for the
\* Prisma codes
ErrorBody(resp, development) ==
    IF resp.kind = "record_not_found"
    THEN errorResponse(Set, Null)
    ELSE errorResponse(Set, IF development THEN Set ELSE Null)

\* order.controller.ts 36-60: 201 with the order itself, or next(error)
OrderBody(resp, development) ==
    IF resp.kind = "ok" THEN BareBody ELSE ErrorBody(resp, development)

\* part_007 79-96 (getProductList): 200 with the result itself
ProductListBody == BareBody

\* part_007 47-53, 215-226, 270-277: successResponse with the product (null
\* after a delete), or next(error)
MutationBody(resp, development, data) ==
    IF resp.kind = "ok" THEN successResponse(Set, data) ELSE ErrorBody(resp, development)


(***************************************************************************)
(* The store.  A transaction's writes stay private (txItems, txDec) until  *)
(* it commits; an UPDATE takes the row lock and holds it until the         *)
(* transaction ends; a read takes no lock and sees committed rows plus the *)
(* transaction's own writes.                                               *)
(***************************************************************************)
NoDec == [p \in ProductIds |-> 0]

IdleOrder ==
    [pc |-> "idle", body |-> [products |-> [t |-> "none"]],
     req |-> <<>>, i |-> 0, items |-> <<>>, totalPrice |-> 0,
     txItems |-> <<>>, txDec |-> NoDec, resp |-> NoResp,
     user |-> Null,    \* req.user.userId, or null without a valid token
     end |-> "none",   \* history: where the call ended
     asIf |-> [p \in ProductIds |-> InitStock]]
                       \* history: the committed stock as the other calls
                       \* alone have made it

\* the user whose token the client of a call holds; the two calls come
\* from different users
Session(o) == IF o = "o1" THEN "u1" ELSE "u2"

\* the calls before they are made, each with its client's token
InitOrders == [o \in OrderIds |-> [IdleOrder EXCEPT !.user = Session(o)]]

\* auth.middleware.ts 37-49: the authenticated user a createOrder call is
\* made for (req.user.userId)
Caller(o) == ord[o].user

\* a controller that lets the fields of the body win
orderDataBodyWins(body, userId) == body @@ [userId |-> userId]

\* order.controller.ts 30-33: { ...req.body, userId: req.user.userId }
orderData(body, userId) == [userId |-> userId] @@ body

\* the updateOrderStatus call when none is in progress
IdleStatus == [pc |-> "idle", orderId |-> Null, userId |-> Null, status |-> Null,
               n |-> 0, resp |-> NoResp]

\* a row that findUnique did not find (null in the code)
NullRow == [state |-> "null", stock |-> 0, price |-> 0]

\* prisma.product.findUnique: the committed row, or null
findUnique(pid) ==
    IF product[pid].state = "live" THEN product[pid] ELSE NullRow

\* a re-read that gives the stock the product was created with
txFindUniqueStale(o, pid) ==
    IF product[pid].state = "live"
    THEN [product[pid] EXCEPT !.stock = InitStock]
    ELSE NullRow

\* tx.product.findUnique: the committed row with the transaction's own
\* decrements applied, or null
txFindUnique(o, pid) ==
    IF product[pid].state = "live"
    THEN [product[pid] EXCEPT !.stock = @ - ord[o].txDec[pid]]
    ELSE NullRow

Range(f) == {f[x] : x \in DOMAIN f}

RECURSIVE SumSeq(_)
SumSeq(s) == IF s = <<>> THEN 0 ELSE Head(s) + SumSeq(Tail(s))

\* the locks a transaction holds are released when it ends
ReleaseLocks(o) == [p \in ProductIds |-> IF rowLock[p] = o THEN "none" ELSE rowLock[p]]

(***************************************************************************)
(* createOrder (order.service.ts 64-200) behind the controller             *)
(* (order.controller.ts 18-61) and the error middleware.                   *)
(***************************************************************************)
\* the price taken from the request line
ItemPriceFromClient(row, quantity, clientPrice) == clientPrice * quantity

\* order.service.ts 107-115: the line's price, from the product row read at
\* the pre-check; a price field of the request line is not read
ItemPrice(row, quantity, clientPrice) == row.price * quantity

\* a check that also refuses a quantity equal to the stock
InsufficientStockStrict(row, quantity) == row.stock <= quantity

\* lines 98 and 143: the stock does not cover the requested quantity
InsufficientStock(row, quantity) == row.stock < quantity

\* lines 77-116, one iteration on line i of the request: look the product
\* up, check the stock, price the line.  After the last line the
\* transaction opens and inserts the Order row (120-129), which no other
\* call can see before the commit.
PreStep(o, req, i) ==
    LET line == req[i]
        row == findUnique(line.productId)
    IN  \E clientPrice \in ClientPrices :
        IF row = NullRow
        THEN ord' = [ord EXCEPT ![o].pc = "done", ![o].req = req, ![o].i = i,
                                ![o].end = "pre_not_found",
                                ![o].resp = errorHandler(PreNotFound(line.productId))]
        ELSE IF InsufficientStock(row, line.quantity)
        THEN ord' = [ord EXCEPT ![o].pc = "done", ![o].req = req, ![o].i = i,
                                ![o].end = "pre_insufficient",
                                ![o].resp = errorHandler(
                                    Insufficient(line.productId, row.stock, line.quantity))]
        ELSE LET price == ItemPrice(row, line.quantity, clientPrice)
                 item == [productId |-> line.productId, quantity |-> line.quantity,
                          price |-> price, unit |-> row.price]
             IN  ord' = [ord EXCEPT
                           ![o].req = req,
                           ![o].items = Append(@, item),
                           ![o].totalPrice = @ + price,
                           ![o].i = IF i = Len(req) THEN 1 ELSE i + 1,
                           ![o].pc = IF i = Len(req) THEN "tx_read" ELSE "pre"]

\* the call arrives with a validated body and checks its first line
PreCheckFirst(o) ==
    /\ ord[o].pc = "idle"
    /\ \E r \in Requests : PreStep(o, r, 1)
    /\ UNCHANGED <<product, orders, orderItems, rowLock, adm, rdr, cache, cacheUp,
                   ver, done, lastRead, keyIn, keyOut, sts, listRows, listOut, now>>

\* the pre-check of a later line
PreCheckNext(o) ==
    /\ ord[o].pc = "pre"
    /\ PreStep(o, ord[o].req, ord[o].i)
    /\ UNCHANGED <<product, orders, orderItems, rowLock, adm, rdr, cache, cacheUp,
                   ver, done, lastRead, keyIn, keyOut, sts, listRows, listOut, now>>

\* the error is caught inside the callback: the transaction commits what it
\* has written so far
RollbackKeepsWrites(o, err, end) ==
    /\ ord' = [ord EXCEPT ![o].pc = "done", ![o].end = end,
                          ![o].resp = errorHandler(err)]
    /\ rowLock' = ReleaseLocks(o)
    /\ product' = [p \in ProductIds |->
                     [product[p] EXCEPT !.stock = @ - ord[o].txDec[p]]]
    /\ orders' = orders \cup {[id |-> o, userId |-> Caller(o),
                               totalPrice |-> ord[o].totalPrice,
                               status |-> "pending"]}
    /\ orderItems' = orderItems \cup Range(ord[o].txItems)

\* the callback throws: the transaction is rolled back, its writes are
\* dropped and its locks released, and the error reaches the middleware
Rollback(o, err, end) ==
    /\ ord' = [ord EXCEPT ![o].pc = "done", ![o].txItems = <<>>, ![o].txDec = NoDec,
                          ![o].end = end, ![o].resp = errorHandler(err)]
    /\ rowLock' = ReleaseLocks(o)
    /\ UNCHANGED <<product, orders, orderItems>>

\* a re-read that does not see the transaction's own decrements
TxReadCommitted(o) ==
    /\ ord[o].pc = "tx_read"
    /\ LET item == ord[o].items[ord[o].i]
           row == findUnique(item.productId)
       IN  IF row = NullRow
           THEN Rollback(o, TxNotFound(item.productId), "tx_not_found")
           ELSE IF InsufficientStock(row, item.quantity)
           THEN Rollback(o, Insufficient(item.productId, row.stock, item.quantity),
                         "tx_insufficient")
           ELSE /\ ord' = [ord EXCEPT ![o].pc = "tx_write"]
                /\ UNCHANGED <<product, orders, orderItems, rowLock>>
    /\ UNCHANGED <<adm, rdr, cache, cacheUp, ver, done, lastRead, keyIn, keyOut, sts,
                   listRows, listOut, now>>

\* lines 135-149: the re-read of the line's product and the two checks
TxRead(o) ==
    /\ ord[o].pc = "tx_read"
    /\ LET item == ord[o].items[ord[o].i]
           row == txFindUnique(o, item.productId)
       IN  IF row = NullRow
           THEN Rollback(o, TxNotFound(item.productId), "tx_not_found")
           ELSE IF InsufficientStock(row, item.quantity)
           THEN Rollback(o, Insufficient(item.productId, row.stock, item.quantity),
                         "tx_insufficient")
           ELSE /\ ord' = [ord EXCEPT ![o].pc = "tx_write"]
                /\ UNCHANGED <<product, orders, orderItems, rowLock>>
    /\ UNCHANGED <<adm, rdr, cache, cacheUp, ver, done, lastRead, keyIn, keyOut, sts, listRows, listOut, now>>

\* an OrderItem row that stores the unit price as the line's price
NewOrderItemUnitPrice(o, i) ==
    LET item == ord[o].items[i]
    IN  [orderId |-> o, line |-> i, productId |-> item.productId,
         quantity |-> item.quantity, price |-> item.unit,
         unit |-> item.unit, unitAtCommit |-> 0]

\* lines 151-158: the OrderItem row of line i
NewOrderItem(o, i) ==
    LET item == ord[o].items[i]
    IN  [orderId |-> o, line |-> i, productId |-> item.productId,
         quantity |-> item.quantity, price |-> item.price,
         unit |-> item.unit,       \* history: the unit price read at the pre-check
         unitAtCommit |-> 0]       \* history: the unit price when the order commits

\* a decrement of one unit whatever the quantity
StockDecrementOne(item) == 1

\* lines 161-168: the amount the UPDATE takes from the stock
StockDecrement(item) == item.quantity

\* what the call does with the cache once its transaction has committed:
\* it returns the order (line 199) and makes no cache call
AfterCommit == cache

\* lines 151-168, not the last line: insert the OrderItem, then UPDATE
\* product SET stock = stock - quantity; the UPDATE waits while another
\* transaction holds the row, and fails with P2025 when the row is gone
TxWrite(o) ==
    /\ ord[o].pc = "tx_write"
    /\ ord[o].i < Len(ord[o].items)
    /\ LET pid == ord[o].items[ord[o].i].productId
       IN  /\ rowLock[pid] \in {"none", o}
           /\ IF product[pid].state # "live"
              THEN Rollback(o, StoreError("P2025"), "tx_row_gone")
              ELSE /\ rowLock' = [rowLock EXCEPT ![pid] = o]
                   /\ UNCHANGED <<product, orders, orderItems>>
                   /\ ord' = [ord EXCEPT
                        ![o].txItems = Append(@, NewOrderItem(o, ord[o].i)),
                        ![o].txDec[pid] = @ + StockDecrement(ord[o].items[ord[o].i]),
                        ![o].i = @ + 1,
                        ![o].pc = "tx_read"]
    /\ UNCHANGED <<adm, rdr, cache, cacheUp, ver, done, lastRead, keyIn, keyOut, sts, listRows, listOut, now>>

\* lines 151-199, the last line: its insert and UPDATE, the final read, the
\* commit, which applies the transaction's decrements to the committed rows
\* and publishes its Order and OrderItem rows, and the 201 response
TxWriteCommit(o) ==
    /\ ord[o].pc = "tx_write"
    /\ ord[o].i = Len(ord[o].items)
    /\ LET pid == ord[o].items[ord[o].i].productId
           dec == [ord[o].txDec EXCEPT ![pid] = @ + StockDecrement(ord[o].items[ord[o].i])]
           lines == Append(ord[o].txItems, NewOrderItem(o, ord[o].i))
       IN  /\ rowLock[pid] \in {"none", o}
           /\ IF product[pid].state # "live"
              THEN /\ Rollback(o, StoreError("P2025"), "tx_row_gone")
                   /\ UNCHANGED <<cache, ver, done>>
              ELSE /\ product' = [p \in ProductIds |->
                                    [product[p] EXCEPT !.stock = @ - dec[p]]]
                   /\ orders' = orders \cup {[id |-> o,
                                              userId |-> orderData(ord[o].body, Caller(o)).userId,
                                              totalPrice |-> ord[o].totalPrice,
                                              status |-> "pending"]}
                   /\ orderItems' = orderItems \cup
                        {[l EXCEPT !.unitAtCommit = product[l.productId].price] :
                           l \in Range(lines)}
                   /\ rowLock' = ReleaseLocks(o)
                   /\ ord' = [h \in OrderIds |->
                        IF h = o
                        THEN [ord[o] EXCEPT !.pc = "done", !.txItems = lines,
                                            !.txDec = dec, !.end = "committed",
                                            !.resp = OkResp(201)]
                        ELSE [ord[h] EXCEPT !.asIf = [p \in ProductIds |-> @[p] - dec[p]]]]
                   /\ ver' = ver + 1
                   /\ done' = [done EXCEPT !.order = ver + 1]
                   /\ cache' = AfterCommit
    /\ UNCHANGED <<adm, rdr, cacheUp, lastRead, keyIn, keyOut, sts, listRows, listOut, now>>

\* two transactions each wait in their UPDATE for a row the other holds:
\* the store aborts one of them (Prisma P2034)
Waits(o, h) ==
    /\ ord[o].pc = "tx_write"
    /\ rowLock[ord[o].items[ord[o].i].productId] = h

\* a store that never detects the deadlock
DeadlockNeverDetected(o) ==
    /\ FALSE
    /\ UNCHANGED vars

\* the store's deadlock detector ends one of the two transactions
DeadlockAbort(o) ==
    /\ \E h \in OrderIds \ {o} : Waits(o, h) /\ Waits(h, o)
    /\ Rollback(o, StoreError("P2034"), "deadlock")
    /\ UNCHANGED <<adm, rdr, cache, cacheUp, ver, done, lastRead, keyIn, keyOut, sts, listRows, listOut, now>>


(***************************************************************************)
(* Query parameters: a value is undefined, a string or a number.           *)
(***************************************************************************)
Undef == [t |-> "undef"]
Str(s) == [t |-> "str", s |-> s]
Num(n) == [t |-> "num", n |-> n]

\* JavaScript truthiness of a parameter
Truthy(v) == \/ v.t = "str" /\ v.s # ""
             \/ v.t = "num" /\ v.n # 0

\* `${v}` in a template literal
Template(v) == IF v.t = "str" THEN v.s ELSE IF v.t = "num" THEN ToString(v.n)
               ELSE "undefined"

\* String.prototype.trim, for the blanks of the model's strings
RECURSIVE TrimLeft(_)
TrimLeft(s) == IF Len(s) > 0 /\ SubSeq(s, 1, 1) = " "
               THEN TrimLeft(SubSeq(s, 2, Len(s))) ELSE s

RECURSIVE TrimRight(_)
TrimRight(s) == IF Len(s) > 0 /\ SubSeq(s, Len(s), Len(s)) = " "
                THEN TrimRight(SubSeq(s, 1, Len(s) - 1)) ELSE s

Trim(s) == TrimRight(TrimLeft(s))

Fields == {"page", "limit", "pageSize", "category", "search", "minPrice",
           "maxPrice", "sortBy", "sortOrder"}

NoQuery == [f \in Fields |-> Undef]

\* product.controller getProductList (part_007 72-89): req.query to the
\* options of the service
ControllerOptions(q) ==
    [q EXCEPT
       !.search = IF Truthy(q.search) /\ Trim(q.search.s) # ""
                  THEN Str(Trim(q.search.s)) ELSE Undef,
       !.sortOrder = IF Truthy(q.sortOrder) THEN q.sortOrder ELSE Str("desc")]

\* Array.prototype.join(':')
RECURSIVE Join(_)
Join(parts) == IF Len(parts) = 0 THEN ""
               ELSE IF Len(parts) = 1 THEN parts[1]
               ELSE parts[1] \o ":" \o Join(Tail(parts))

\* one optional part of the key: `name:value` when the value is truthy
KeyPart(name, v) == IF Truthy(v) THEN name \o ":" \o Template(v) ELSE ""

NonEmpty(s) == s # ""

\* redis.util.ts 88-125
generateProductListCacheKey(options) ==
    LET page == IF options.page.t = "undef" THEN Num(1) ELSE options.page
        itemsPerPage == IF Truthy(options.limit) THEN options.limit
                        ELSE IF Truthy(options.pageSize) THEN options.pageSize
                        ELSE Num(10)
        parts == << "products",
                    "page:" \o Template(page),
                    "limit:" \o Template(itemsPerPage),
                    KeyPart("category", options.category),
                    KeyPart("search", options.search),
                    KeyPart("minPrice", options.minPrice),
                    KeyPart("maxPrice", options.maxPrice),
                    KeyPart("sortBy", options.sortBy),
                    KeyPart("sortOrder", options.sortOrder) >>
    IN  Join(SelectSeq(parts, NonEmpty))

(***************************************************************************)
(* The cache (redis.util.ts): every helper catches the client's error.     *)
(***************************************************************************)
\* part_006 13
CACHE_TTL == 3600

\* null; ver and setAt are history: the store version a result was computed
\* from, and the store version when it was written to the cache
\* at is history too: the moment of the write.  exp is the moment Redis
\* drops the entry, -1 for none
NoEntry == [products |-> {}, ver |-> -1, setAt |-> -1, at |-> -1, exp |-> -1]

\* getCache 36-43: the value, or null on a miss and on an error
getCache(key) ==
    IF cacheUp /\ key \in DOMAIN cache THEN cache[key] ELSE NoEntry

\* a SET without expiry
setCacheNoExpiry(key, value) ==
    IF cacheUp
    THEN [k \in DOMAIN cache \cup {key} |->
            IF k = key THEN [value EXCEPT !.setAt = ver, !.at = now, !.exp = -1]
            ELSE cache[k]]
    ELSE cache

\* setCache 48-58, called with CACHE_TTL (part_006 283): SETEX, an error
\* is logged and dropped
setCache(key, value) ==
    IF cacheUp
    THEN [k \in DOMAIN cache \cup {key} |->
            IF k = key
            THEN [value EXCEPT !.setAt = ver, !.at = now, !.exp = now + CACHE_TTL]
            ELSE cache[k]]
    ELSE cache

\* Redis at moment t: the entries whose time-to-live has not run out
Unexpired(t) ==
    [k \in {x \in DOMAIN cache : cache[x].exp < 0 \/ cache[x].exp > t} |-> cache[k]]

\* a glob that matches the keys of the first page only
MatchesFirstPage(key) == Len(key) >= 16 /\ SubSeq(key, 1, 16) = "products:page:1:"

\* the glob 'products:*' of Redis KEYS
MatchesPattern(key) == Len(key) >= 9 /\ SubSeq(key, 1, 9) = "products:"

\* redisClient.keys(pattern), line 76
PatternKeys == {k \in DOMAIN cache : MatchesPattern(k)}

\* a DEL that removes nothing
delNoKeys(keys) == cache

\* redisClient.del(...keys), line 78
delKeys(keys) == [k \in DOMAIN cache \ keys |-> cache[k]]


(***************************************************************************)
(* getProductList (part_006 181-290) behind its controller.                *)
(***************************************************************************)
\* nothing has completed yet
NoneDone == [product |-> 0, order |-> 0, purged |-> 0, deleted |-> {}]

IdleReader == [pc |-> "idle", key |-> "", res |-> NoEntry, n |-> 0,
               start |-> NoneDone, startVer |-> 0]

NoRead == [status |-> 0, key |-> "", res |-> NoEntry, hit |-> FALSE,
           start |-> NoneDone, startVer |-> 0]

\* the query strings the reader sends: the pair drawn in keyIn, or else two
\* fixed shapes
ReaderQueries ==
    IF keyIn = <<>> THEN {NoQuery, [NoQuery EXCEPT !.sortBy = Str("price")]}
    ELSE {keyIn[1], keyIn[2]}

\* lines 251-279: findMany and count over the committed rows; the result is
\* tagged with the store version it was computed from
ProductListResult ==
    [products |-> {[id |-> p, price |-> product[p].price, stock |-> product[p].stock] :
                     p \in {x \in ProductIds : product[x].state = "live"}},
     ver |-> ver, setAt |-> -1, at |-> -1, exp |-> -1]

\* the lookup's result is ignored: the call goes on to the store
ReadStartAlwaysQueries ==
    /\ rdr.pc = "idle"
    /\ rdr.n < MaxReads
    /\ \E q \in ReaderQueries :
         rdr' = [rdr EXCEPT !.pc = "query",
                            !.key = generateProductListCacheKey(ControllerOptions(q)),
                            !.start = done, !.startVer = ver]
    /\ UNCHANGED <<product, orders, orderItems, rowLock, ord, adm, cache, cacheUp,
                   ver, done, lastRead, keyIn, keyOut, sts, listRows, listOut, now>>

\* lines 195-206: the key, the cache lookup, and the return on a hit
ReadStart ==
    /\ rdr.pc = "idle"
    /\ rdr.n < MaxReads
    /\ \E q \in ReaderQueries :
         LET key == generateProductListCacheKey(ControllerOptions(q))
             cachedData == getCache(key)
         IN  IF cachedData # NoEntry
             THEN /\ lastRead' = [status |-> 200, key |-> key, res |-> cachedData,
                                  hit |-> TRUE,
                                  start |-> done, startVer |-> ver]
                  /\ rdr' = [rdr EXCEPT !.n = @ + 1]
             ELSE /\ rdr' = [rdr EXCEPT !.pc = "query", !.key = key,
                                        !.start = done, !.startVer = ver]
                  /\ UNCHANGED lastRead
    /\ UNCHANGED <<product, orders, orderItems, rowLock, ord, adm, cache, cacheUp,
                   ver, done, keyIn, keyOut, sts, listRows, listOut, now>>

\* lines 208-279: the store query
ReadQuery ==
    /\ rdr.pc = "query"
    /\ rdr' = [rdr EXCEPT !.pc = "set", !.res = ProductListResult]
    /\ UNCHANGED <<product, orders, orderItems, rowLock, ord, adm, cache, cacheUp,
                   ver, done, lastRead, keyIn, keyOut, sts, listRows, listOut, now>>

\* a failed store query whose empty result is cached and returned
ReadQueryFailsCachesEmpty ==
    /\ rdr.pc = "query"
    /\ cache' = setCache(rdr.key, [ProductListResult EXCEPT !.products = {}])
    /\ lastRead' = [status |-> 200, key |-> rdr.key,
                    res |-> [ProductListResult EXCEPT !.products = {}], hit |-> FALSE,
                    start |-> rdr.start, startVer |-> rdr.startVer]
    /\ rdr' = [IdleReader EXCEPT !.n = rdr.n + 1]
    /\ UNCHANGED <<product, orders, orderItems, rowLock, ord, adm, cacheUp,
                   ver, done, keyIn, keyOut, sts, listRows, listOut, now>>

\* lines 251-266 when findMany or count rejects: Promise.all rejects, the
\* function has no catch around it, the controller passes the error to the
\* middleware (part_007 94-96), which answers 500; line 283 is not reached
ReadQueryFails ==
    /\ rdr.pc = "query"
    /\ lastRead' = [status |-> errorHandler(StoreError("P1001")).status,
                    key |-> rdr.key, res |-> NoEntry, hit |-> FALSE,
                    start |-> rdr.start, startVer |-> rdr.startVer]
    /\ rdr' = [IdleReader EXCEPT !.n = rdr.n + 1]
    /\ UNCHANGED <<product, orders, orderItems, rowLock, ord, adm, cache, cacheUp,
                   ver, done, keyIn, keyOut, sts, listRows, listOut, now>>

\* the cache write without any catch: its error fails the call
ReadSetThrows ==
    /\ rdr.pc = "set"
    /\ cache' = setCache(rdr.key, rdr.res)
    /\ lastRead' = IF cacheUp
                   THEN [status |-> 200, key |-> rdr.key, res |-> rdr.res, hit |-> FALSE,
                         start |-> rdr.start, startVer |-> rdr.startVer]
                   ELSE [status |-> 500, key |-> rdr.key, res |-> NoEntry, hit |-> FALSE,
                         start |-> rdr.start, startVer |-> rdr.startVer]
    /\ rdr' = [IdleReader EXCEPT !.n = rdr.n + 1]
    /\ UNCHANGED <<product, orders, orderItems, rowLock, ord, adm, cacheUp,
                   ver, done, keyIn, keyOut, sts, listRows, listOut, now>>

\* lines 281-289: the cache write and the return
ReadSet ==
    /\ rdr.pc = "set"
    /\ cache' = setCache(rdr.key, rdr.res)
    /\ lastRead' = [status |-> 200, key |-> rdr.key, res |-> rdr.res,
                    hit |-> FALSE,
                    start |-> rdr.start, startVer |-> rdr.startVer]
    /\ rdr' = [IdleReader EXCEPT !.n = rdr.n + 1]
    /\ adm' = IF adm.pc = "purge_del" /\ cacheUp
              THEN [adm EXCEPT !.setDuring = TRUE] ELSE adm
    /\ UNCHANGED <<product, orders, orderItems, rowLock, ord, cacheUp,
                   ver, done, keyIn, keyOut, sts, listRows, listOut, now>>

(***************************************************************************)
(* createProduct, updateProduct, deleteProduct (part_006 81-113, 337-396,  *)
(* 402-439), called for an admin.                                          *)
(***************************************************************************)
IdleAdmin == [pc |-> "idle", pid |-> Null, field |-> Null, value |-> 0,
              keys |-> {}, n |-> 0, commitVer |-> 0, resp |-> NoResp,
              setDuring |-> FALSE]  \* history: a cache write ran between
                                    \* the purge's KEYS and its DEL

\* the call returns: its response is sent; purged tells whether its
\* invalidation step ran to its end, deleted which keys that step removed
AdminReturn(resp, purged, deleted) ==
    /\ adm' = [IdleAdmin EXCEPT !.n = adm.n + 1, !.resp = resp]
    /\ done' = [done EXCEPT
                  !.product = IF resp.kind = "ok" THEN adm.commitVer ELSE @,
                  !.purged = IF resp.kind = "ok" /\ purged THEN adm.commitVer ELSE @,
                  !.deleted = @ \cup deleted]

\* lines 84-103: the insert
CreateProduct(pid) ==
    /\ adm.pc = "idle"
    /\ adm.n < MaxMutations
    /\ product[pid].state = "absent"
    /\ \E price \in 1..MaxPrice :
         product' = [product EXCEPT ![pid] =
                        [state |-> "live", stock |-> InitStock, price |-> price]]
    /\ ver' = ver + 1
    /\ adm' = [adm EXCEPT !.pc = "purge_keys", !.pid = pid, !.commitVer = ver + 1,
                          !.resp = OkResp(201)]
    /\ UNCHANGED <<orders, orderItems, rowLock, ord, rdr, cache, cacheUp,
                   done, lastRead, keyIn, keyOut, sts, listRows, listOut, now>>

\* the user the rows of the catalogue were created for (Product.userId)
OwnerOf(pid) == "u1"

\* updateProduct 355-363 and deleteProduct 419-427: statusCode = 403
NotAuthorizedFor(pid) ==
    [code |-> "", statusCode |-> 403, kind |-> "not_authorized",
     product |-> pid, available |-> 0, requested |-> 0]

\* updateProduct 344-363 and deleteProduct 408-427: the existence check and
\* the check of the caller, who is an admin or a user, or is not given
MutationFind(pid, next, f, v) ==
    /\ adm.pc = "idle"
    /\ adm.n < MaxMutations
    /\ \E isAdmin \in BOOLEAN, userId \in UserIds \cup {Null} :
         IF findUnique(pid) = NullRow
         THEN AdminReturn(errorHandler([code |-> "", statusCode |-> 404,
                                        kind |-> "not_found", product |-> Null,
                                        available |-> 0, requested |-> 0]), FALSE, {})
         ELSE IF ~isAdmin /\ (userId = Null \/ OwnerOf(pid) # userId)
         THEN AdminReturn(errorHandler(NotAuthorizedFor(pid)), FALSE, {})
         ELSE /\ adm' = [adm EXCEPT !.pc = next, !.pid = pid, !.field = f, !.value = v]
              /\ UNCHANGED done

\* the bodies of the update requests: a new price or a new stock
UpdateData == ({"price"} \X (1..MaxPrice)) \cup ({"stock"} \X (0..InitStock))

UpdateFind(pid) ==
    /\ \E d \in UpdateData : MutationFind(pid, "upd_write", d[1], d[2])
    /\ UNCHANGED <<product, orders, orderItems, rowLock, ord, rdr, cache, cacheUp,
                   ver, lastRead, keyIn, keyOut, sts, listRows, listOut, now>>

\* an UPDATE that also re-prices the order lines of the product
UpdateWriteReprices ==
    /\ adm.pc = "upd_write"
    /\ rowLock[adm.pid] = "none"
    /\ product' = [product EXCEPT ![adm.pid] =
                     IF adm.field = "price" THEN [@ EXCEPT !.price = adm.value]
                     ELSE [@ EXCEPT !.stock = adm.value]]
    /\ orderItems' = {IF l.productId = adm.pid /\ adm.field = "price"
                      THEN [l EXCEPT !.price = adm.value * l.quantity] ELSE l :
                      l \in orderItems}
    /\ ver' = ver + 1
    /\ adm' = [adm EXCEPT !.pc = "purge_keys", !.commitVer = ver + 1,
                          !.resp = OkResp(200)]
    /\ ord' = [o \in OrderIds |->
                 IF adm.field = "stock"
                 THEN [ord[o] EXCEPT !.asIf[adm.pid] = adm.value] ELSE ord[o]]
    /\ UNCHANGED <<orders, rowLock, rdr, cache, cacheUp,
                   done, lastRead, keyIn, keyOut, sts, listRows, listOut, now>>

\* lines 365-386: the UPDATE of the row; it waits for the row lock
UpdateWrite ==
    /\ adm.pc = "upd_write"
    /\ rowLock[adm.pid] = "none"
    /\ product' = [product EXCEPT ![adm.pid] =
                     IF adm.field = "price" THEN [@ EXCEPT !.price = adm.value]
                     ELSE [@ EXCEPT !.stock = adm.value]]
    /\ ver' = ver + 1
    /\ adm' = [adm EXCEPT !.pc = "purge_keys", !.commitVer = ver + 1,
                          !.resp = OkResp(200)]
    /\ ord' = [o \in OrderIds |->
                 IF adm.field = "stock"
                 THEN [ord[o] EXCEPT !.asIf[adm.pid] = adm.value] ELSE ord[o]]
    /\ UNCHANGED <<orders, orderItems, rowLock, rdr, cache, cacheUp,
                   done, lastRead, keyIn, keyOut, sts, listRows, listOut, now>>

\* lines 374-386: the UPDATE is rejected by the store; the error leaves
\* updateProduct before the invalidation
UpdateWriteFails ==
    /\ adm.pc = "upd_write"
    /\ AdminReturn(errorHandler(StoreError("P1001")), FALSE, {})
    /\ UNCHANGED <<product, orders, orderItems, rowLock, ord, rdr, cache, cacheUp,
                   ver, lastRead, keyIn, keyOut, sts, listRows, listOut, now>>

\* lines 84-103: the INSERT is rejected by the store; the error leaves
\* createProduct before the invalidation
CreateProductFails(pid) ==
    /\ adm.pc = "idle"
    /\ adm.n < MaxMutations
    /\ product[pid].state = "absent"
    /\ AdminReturn(errorHandler(StoreError("P1001")), FALSE, {})
    /\ UNCHANGED <<product, orders, orderItems, rowLock, ord, rdr, cache, cacheUp,
                   ver, lastRead, keyIn, keyOut, sts, listRows, listOut, now>>

DeleteFind(pid) ==
    /\ MutationFind(pid, "del_write", Null, 0)
    /\ UNCHANGED <<product, orders, orderItems, rowLock, ord, rdr, cache, cacheUp,
                   ver, lastRead, keyIn, keyOut, sts, listRows, listOut, now>>

\* a DELETE whose failure is swallowed, so that the purge runs all the same
DeleteWritePurgesAnyway ==
    /\ adm.pc = "del_write"
    /\ rowLock[adm.pid] = "none"
    /\ LET lines == {l \in orderItems : l.productId = adm.pid}
       IN  \/ /\ lines # {}
              /\ adm' = [adm EXCEPT !.pc = "purge_keys",
                                    !.resp = errorHandler(StoreError("P2003"))]
              /\ UNCHANGED <<product, orderItems, ver, done>>
           \/ /\ product' = [product EXCEPT ![adm.pid].state = "deleted"]
              /\ orderItems' = orderItems \ lines
              /\ ver' = ver + 1
              /\ adm' = [adm EXCEPT !.pc = "purge_keys", !.commitVer = ver + 1,
                                    !.resp = OkResp(200)]
              /\ UNCHANGED done
    /\ UNCHANGED <<orders, rowLock, ord, rdr, cache, cacheUp, lastRead, keyIn, keyOut, sts, listRows, listOut, now>>

\* lines 429-431: the DELETE of the row; it waits for the row lock.  The
\* schema's referential action for OrderItem.product is not part of the
\* sources: the DELETE of a row that order lines reference either fails
\* (P2003) or removes those lines with it.
DeleteWrite ==
    /\ adm.pc = "del_write"
    /\ rowLock[adm.pid] = "none"
    /\ LET lines == {l \in orderItems : l.productId = adm.pid}
       IN  \/ /\ lines # {}
              /\ AdminReturn(errorHandler(StoreError("P2003")), FALSE, {})
              /\ UNCHANGED <<product, orderItems, ver>>
           \/ /\ product' = [product EXCEPT ![adm.pid].state = "deleted"]
              /\ orderItems' = orderItems \ lines
              /\ ver' = ver + 1
              /\ adm' = [adm EXCEPT !.pc = "purge_keys", !.commitVer = ver + 1,
                                    !.resp = OkResp(200)]
              /\ UNCHANGED done
    /\ UNCHANGED <<orders, rowLock, ord, rdr, cache, cacheUp, lastRead, keyIn, keyOut, sts, listRows, listOut, now>>

\* deleteCacheByPattern 74-83, first call: KEYS; an error ends the purge
PurgeKeys ==
    /\ adm.pc = "purge_keys"
    /\ IF cacheUp /\ PatternKeys # {}
       THEN /\ adm' = [adm EXCEPT !.pc = "purge_del", !.keys = PatternKeys]
            /\ UNCHANGED done
       ELSE AdminReturn(adm.resp, cacheUp, {})
    /\ UNCHANGED <<product, orders, orderItems, rowLock, ord, rdr, cache, cacheUp,
                   ver, lastRead, keyIn, keyOut, sts, listRows, listOut, now>>

\* deleteCacheByPattern, second call: DEL of the keys found
PurgeDel ==
    /\ adm.pc = "purge_del"
    /\ cache' = IF cacheUp THEN delKeys(adm.keys) ELSE cache
    /\ AdminReturn(adm.resp, cacheUp, IF cacheUp THEN adm.keys ELSE {})
    /\ UNCHANGED <<product, orders, orderItems, rowLock, ord, rdr, cacheUp,
                   ver, lastRead, keyIn, keyOut, sts, listRows, listOut, now>>

(***************************************************************************)
(* The environment: Redis goes away and comes back.                        *)
(***************************************************************************)
\* time passes; Redis drops the entries whose time-to-live has run out
Tick ==
    /\ now + TickSeconds <= MaxTime
    /\ now' = now + TickSeconds
    /\ cache' = Unexpired(now + TickSeconds)
    /\ UNCHANGED <<product, orders, orderItems, rowLock, ord, adm, rdr, cacheUp,
                   ver, done, lastRead, keyIn, keyOut, sts, listRows, listOut>>

CacheFlip ==
    /\ cacheUp' = ~cacheUp
    /\ UNCHANGED <<product, orders, orderItems, rowLock, ord, adm, rdr, cache,
                   ver, done, lastRead, keyIn, keyOut, sts, listRows, listOut, now>>

(***************************************************************************)
(* POST /orders (order.routes.ts 25-43): the express-validator chain and   *)
(* the validate middleware in front of the controller, given any JSON      *)
(* body.                                                                   *)
(***************************************************************************)
Arr(a) == [t |-> "array", a |-> a]

\* the bodies a client sends: products missing, not an array, or an array
\* of up to two lines whose productId and quantity may be missing or bad
RawProductIds == {Undef, Str("")} \cup {Str(p) : p \in ProductIds}
RawQuantities == {Undef} \cup {Num(n) : n \in -1..MaxQty}
RawLines == [productId : RawProductIds, quantity : RawQuantities]
Bodies ==
    [products : {Undef, Str("none")} \cup
                {Arr(a) : a \in UNION {[1..n -> RawLines] : n \in {0} \cup LineCounts}}]

\* body('products').isArray({ min: 1 })
isArray(v, min) == v.t = "array" /\ Len(v.a) >= min

\* .notEmpty(): the value as a string is not ''
notEmpty(v) == ~(v.t = "undef" \/ (v.t = "str" /\ v.s = ""))

\* .isInt({ min: 1 }) on an undefined value or a number
isInt(v, min) == v.t = "num" /\ v.n >= min

\* the elements selected by the wildcard products.*
Wildcard(body) == IF body.products.t = "array" THEN Range(body.products.a) ELSE {}

\* no validator reports an error
NoValidationErrors(body) == {}

\* order.routes.ts 35-39: the fields the validators report
ValidationErrors(body) ==
    {f \in {"products"} : ~isArray(body.products, 1)}
    \cup {f \in {"productId"} : \E l \in Wildcard(body) : ~notEmpty(l.productId)}
    \cup {f \in {"quantity"} : \E l \in Wildcard(body) : ~isInt(l.quantity, 1)}

\* part_003 15-17 (validate): 400 with the list of messages
ValidationFailed ==
    [status |-> 400, kind |-> "validation", product |-> Null, available |-> 0,
     requested |-> 0]

\* order.service.ts 68-70 and 80-82: the service's own checks throw a
\* plain Error
ServiceRejects(body) ==
    \/ ~isArray(body.products, 1)
    \/ \E l \in Wildcard(body) :
          \/ ~Truthy(l.productId)
          \/ ~Truthy(l.quantity)
          \/ l.quantity.n <= 0

ServiceInvalid ==
    [code |-> "", statusCode |-> 0, kind |-> "invalid", product |-> Null,
     available |-> 0, requested |-> 0]

\* the lines of a body that passed
Lines(body) ==
    [k \in DOMAIN body.products.a |->
        [productId |-> body.products.a[k].productId.s,
         quantity |-> body.products.a[k].quantity.n]]

\* the request goes through the validators, validate, the controller and
\* the service's checks, and then to the pre-check of its first line
RouteOrder(o) ==
    /\ ord[o].pc = "idle"
    /\ \E b \in Bodies :
         IF ValidationErrors(b) # {}
         THEN ord' = [ord EXCEPT ![o].pc = "done", ![o].body = b,
                                 ![o].end = "invalid", ![o].resp = ValidationFailed]
         ELSE IF ServiceRejects(b)
         THEN ord' = [ord EXCEPT ![o].pc = "done", ![o].body = b,
                                 ![o].end = "service_invalid",
                                 ![o].resp = errorHandler(ServiceInvalid)]
         ELSE PreStep(o, Lines(b), 1)
    /\ UNCHANGED <<product, orders, orderItems, rowLock, adm, rdr, cache, cacheUp,
                   ver, done, lastRead, keyIn, keyOut, sts, listRows, listOut, now>>


(***************************************************************************)
(* The specifications.  Spec: the order engine under concurrent orders and *)
(* product mutations.  SpecCatalog: the catalog query and its cache under  *)
(* product mutations, one order and cache outages.                         *)
(***************************************************************************)
LiveRow == [state |-> "live", stock |-> InitStock, price |-> 1]

AbsentRow == [state |-> "absent", stock |-> 0, price |-> 0]

InitCommon ==
    /\ orders = {}
    /\ orderItems = {}
    /\ rowLock = [p \in ProductIds |-> "none"]
    /\ ord = InitOrders
    /\ adm = IdleAdmin
    /\ rdr = IdleReader
    /\ cache = <<>>
    /\ ver = 0
    /\ done = NoneDone
    /\ lastRead = NoRead
    /\ keyIn = <<>>
    /\ keyOut = <<>>
    /\ sts = IdleStatus
    /\ listRows = {}
    /\ listOut = <<>>
    /\ now = 0

Init ==
    /\ InitCommon
    /\ product = [p \in ProductIds |-> LiveRow]
    /\ cacheUp = TRUE

Next ==
    \/ \E o \in OrderIds : PreCheckFirst(o)
    \/ \E o \in OrderIds : PreCheckNext(o)
    \/ \E o \in OrderIds : TxRead(o)
    \/ \E o \in OrderIds : TxWrite(o)
    \/ \E o \in OrderIds : TxWriteCommit(o)
    \/ \E o \in OrderIds : DeadlockAbort(o)
    \/ \E p \in ProductIds : UpdateFind(p)
    \/ UpdateWrite
    \/ \E p \in ProductIds : DeleteFind(p)
    \/ DeleteWrite
    \/ PurgeKeys

Spec == Init /\ [][Next]_vars

InitCatalog ==
    /\ InitCommon
    /\ product = [p \in ProductIds |-> IF p = "p1" THEN LiveRow ELSE AbsentRow]
    /\ cacheUp = TRUE

NextCatalog ==
    \/ PreCheckFirst("o1")
    \/ PreCheckNext("o1")
    \/ TxRead("o1")
    \/ TxWrite("o1")
    \/ TxWriteCommit("o1")
    \/ ReadStart
    \/ ReadQuery
    \/ ReadSet
    \/ \E p \in ProductIds : CreateProduct(p)
    \/ \E p \in ProductIds : UpdateFind(p)
    \/ UpdateWrite
    \/ \E p \in ProductIds : DeleteFind(p)
    \/ DeleteWrite
    \/ PurgeKeys
    \/ PurgeDel
    \/ CacheFlip

SpecCatalog == InitCatalog /\ [][NextCatalog]_vars

(***************************************************************************)
(* SpecAdmin: the three product mutations with their failures (unknown     *)
(* id, caller not authorized, store error), next to list reads that fill   *)
(* the cache and an order whose lines reference a product.                 *)
(***************************************************************************)
NextAdmin ==
    \/ PreCheckFirst("o1")
    \/ PreCheckNext("o1")
    \/ TxRead("o1")
    \/ TxWrite("o1")
    \/ TxWriteCommit("o1")
    \/ ReadStart
    \/ ReadQuery
    \/ ReadSet
    \/ \E p \in ProductIds : CreateProduct(p)
    \/ \E p \in ProductIds : CreateProductFails(p)
    \/ \E p \in ProductIds : UpdateFind(p)
    \/ UpdateWrite
    \/ UpdateWriteFails
    \/ \E p \in ProductIds : DeleteFind(p)
    \/ DeleteWrite
    \/ PurgeKeys
    \/ PurgeDel
    \/ CacheFlip

SpecAdmin == InitCatalog /\ [][NextAdmin]_vars

(***************************************************************************)
(* SpecLive: concurrent createOrder calls under fair scheduling.  Once a   *)
(* request is in, the event loop runs each continuation whose await has    *)
(* resolved, and the store answers every statement that is not waiting for *)
(* a lock and ends one of two transactions that wait for each other.       *)
(***************************************************************************)
NextOrders ==
    \/ \E o \in OrderIds : PreCheckFirst(o)
    \/ \E o \in OrderIds : PreCheckNext(o)
    \/ \E o \in OrderIds : TxRead(o)
    \/ \E o \in OrderIds : TxWrite(o)
    \/ \E o \in OrderIds : TxWriteCommit(o)
    \/ \E o \in OrderIds : DeadlockAbort(o)

Fairness ==
    \A o \in OrderIds :
        /\ WF_vars(PreCheckNext(o))
        /\ WF_vars(TxRead(o))
        /\ WF_vars(TxWrite(o))
        /\ WF_vars(TxWriteCommit(o))
        /\ WF_vars(DeadlockAbort(o))

SpecLive == Init /\ [][NextOrders]_vars /\ Fairness

(***************************************************************************)
(* SpecOwner: order requests of clients with or without a valid token,     *)
(* whose bodies may carry a userId field of their own.                     *)
(***************************************************************************)
\* auth.middleware.ts 32-42 and order.controller.ts 24-27: no principal
Unauthorized ==
    [status |-> 401, kind |-> "unauthorized", product |-> Null, available |-> 0,
     requested |-> 0]

\* POST /orders: authenticate, then the controller and the service
AuthOrder(o) ==
    /\ ord[o].pc = "idle"
    /\ IF ord[o].user = Null
       THEN ord' = [ord EXCEPT ![o].pc = "done", ![o].end = "unauthorized",
                               ![o].resp = Unauthorized]
       ELSE \E r \in Requests : PreStep(o, r, 1)
    /\ UNCHANGED <<product, orders, orderItems, rowLock, adm, rdr, cache, cacheUp,
                   ver, done, lastRead, keyIn, keyOut, sts, listRows, listOut, now>>

\* what a body says about the user: nothing, or a userId of its own
OwnerBodies ==
    {IdleOrder.body} \cup {[userId |-> u] @@ IdleOrder.body : u \in UserIds}

\* the clients before their requests: the token each holds (none, or a
\* user's) and the userId field of the body each is about to send
OwnerClients ==
    {[IdleOrder EXCEPT !.user = u, !.body = b] :
        u \in UserIds \cup {Null}, b \in OwnerBodies}

InitOwner ==
    /\ orders = {}
    /\ orderItems = {}
    /\ rowLock = [p \in ProductIds |-> "none"]
    /\ ord \in [OrderIds -> OwnerClients]
    /\ adm = IdleAdmin
    /\ rdr = IdleReader
    /\ cache = <<>>
    /\ ver = 0
    /\ done = NoneDone
    /\ lastRead = NoRead
    /\ keyIn = <<>>
    /\ keyOut = <<>>
    /\ sts = IdleStatus
    /\ listRows = {}
    /\ listOut = <<>>
    /\ now = 0
    /\ product = [p \in ProductIds |-> LiveRow]
    /\ cacheUp = TRUE

NextOwner ==
    \/ \E o \in OrderIds : AuthOrder(o)
    \/ \E o \in OrderIds : PreCheckNext(o)
    \/ \E o \in OrderIds : TxRead(o)
    \/ \E o \in OrderIds : TxWrite(o)
    \/ \E o \in OrderIds : TxWriteCommit(o)
    \/ \E o \in OrderIds : DeadlockAbort(o)

SpecOwner == InitOwner /\ [][NextOwner]_vars

(***************************************************************************)
(* SpecRoute: order requests with any body, through the route.             *)
(***************************************************************************)
NextRoute ==
    \/ \E o \in OrderIds : RouteOrder(o)
    \/ \E o \in OrderIds : PreCheckNext(o)
    \/ \E o \in OrderIds : TxRead(o)
    \/ \E o \in OrderIds : TxWrite(o)
    \/ \E o \in OrderIds : TxWriteCommit(o)
    \/ \E o \in OrderIds : DeadlockAbort(o)

SpecRoute == Init /\ [][NextRoute]_vars

(***************************************************************************)
(* updateOrderStatus (order.service.ts 336-387) behind PUT /:id/status      *)
(* (order.routes.ts 117-131) and the controller (order.controller.ts        *)
(* 160-177).                                                                *)
(***************************************************************************)
\* order.service.ts 354 and order.routes.ts 124: the statuses of an order
validStatuses == {"pending", "processing", "shipped", "delivered", "cancelled"}

\* the status values a request body carries: a valid one, none, another word
StatusValues == validStatuses \cup {"", "refunded"}

\* order.routes.ts 121-128: body('status').notEmpty().isIn([...])
StatusErrors(status) ==
    (IF status = "" THEN {"Status is required"} ELSE {})
    \cup (IF status \notin validStatuses THEN {"Invalid status"} ELSE {})

\* lines 346-348, 350-352 and 355-357: plain Errors
OrderNotFound ==
    [code |-> "", statusCode |-> 0, kind |-> "order_not_found", product |-> Null,
     available |-> 0, requested |-> 0]

NotAuthorized ==
    [code |-> "", statusCode |-> 0, kind |-> "not_authorized", product |-> Null,
     available |-> 0, requested |-> 0]

InvalidStatus ==
    [code |-> "", statusCode |-> 0, kind |-> "invalid_status", product |-> Null,
     available |-> 0, requested |-> 0]

\* the call returns with its response
StatusReturn(resp) == sts' = [IdleStatus EXCEPT !.n = sts.n + 1, !.resp = resp]

\* an ownership test that lets every user through
IsOwnerAnyone(row, userId) == TRUE

\* line 350: existingOrder.userId !== userId
IsOwner(row, userId) == row.userId = userId

\* the validators, then lines 342-357: the read of the order and the
\* three checks
StatusFind(userId, orderId, status) ==
    /\ sts.pc = "idle"
    /\ sts.n < MaxStatusCalls
    /\ LET rows == {r \in orders : r.id = orderId}
       IN  IF StatusErrors(status) # {}
           THEN StatusReturn(ValidationFailed)
           ELSE IF rows = {}
           THEN StatusReturn(errorHandler(OrderNotFound))
           ELSE IF \E r \in rows : ~IsOwner(r, userId)
           THEN StatusReturn(errorHandler(NotAuthorized))
           ELSE IF status \notin validStatuses
           THEN StatusReturn(errorHandler(InvalidStatus))
           ELSE sts' = [sts EXCEPT !.pc = "write", !.orderId = orderId,
                                   !.userId = userId, !.status = status,
                                   !.resp = NoResp]
    /\ UNCHANGED <<product, orders, orderItems, rowLock, ord, adm, rdr, cache, cacheUp,
                   ver, done, lastRead, keyIn, keyOut, listRows, listOut, now>>

\* lines 359-386: prisma.order.update with data { status }, and the 200
\* response; P2025 when the row is not there
StatusWrite ==
    /\ sts.pc = "write"
    /\ IF \A r \in orders : r.id # sts.orderId
       THEN /\ StatusReturn(errorHandler(StoreError("P2025")))
            /\ UNCHANGED orders
       ELSE /\ orders' = {IF r.id = sts.orderId
                          THEN [r EXCEPT !.status = sts.status] ELSE r : r \in orders}
            /\ StatusReturn(OkResp(200))
    /\ UNCHANGED <<product, orderItems, rowLock, ord, adm, rdr, cache, cacheUp,
                   ver, done, lastRead, keyIn, keyOut, listRows, listOut, now>>

\* createOrder calls and updateOrderStatus calls
NextStatus ==
    \/ \E o \in OrderIds : PreCheckFirst(o)
    \/ \E o \in OrderIds : PreCheckNext(o)
    \/ \E o \in OrderIds : TxRead(o)
    \/ \E o \in OrderIds : TxWrite(o)
    \/ \E o \in OrderIds : TxWriteCommit(o)
    \/ \E o \in OrderIds : DeadlockAbort(o)
    \/ \E u \in UserIds, o \in OrderIds, s \in StatusValues : StatusFind(u, o, s)
    \/ StatusWrite

SpecStatus == Init /\ [][NextStatus]_vars

(***************************************************************************)
(* SpecCacheDown: the same calls while Redis never answers.                *)
(***************************************************************************)
InitCacheDown ==
    /\ InitCommon
    /\ product = [p \in ProductIds |-> IF p = "p1" THEN LiveRow ELSE AbsentRow]
    /\ cacheUp = FALSE

NextCacheDown ==
    \/ PreCheckFirst("o1")
    \/ PreCheckNext("o1")
    \/ TxRead("o1")
    \/ TxWrite("o1")
    \/ TxWriteCommit("o1")
    \/ ReadStart
    \/ ReadQuery
    \/ ReadSet
    \/ \E p \in ProductIds : CreateProduct(p)
    \/ \E p \in ProductIds : UpdateFind(p)
    \/ UpdateWrite
    \/ \E p \in ProductIds : DeleteFind(p)
    \/ DeleteWrite
    \/ PurgeKeys

SpecCacheDown == InitCacheDown /\ [][NextCacheDown]_vars


(***************************************************************************)
(* SpecStoreFail: catalog queries and product updates while the store may  *)
(* fail a listing query and Redis may go away.                             *)
(***************************************************************************)
NextStoreFail ==
    \/ ReadStart
    \/ ReadQuery
    \/ ReadQueryFails
    \/ ReadSet
    \/ \E p \in ProductIds : UpdateFind(p)
    \/ UpdateWrite
    \/ PurgeKeys
    \/ PurgeDel
    \/ CacheFlip

SpecStoreFail == InitCatalog /\ [][NextStoreFail]_vars

(***************************************************************************)
(* SpecTtl: catalog queries and product updates while time passes.         *)
(***************************************************************************)
NextTtl ==
    \/ ReadStart
    \/ ReadQuery
    \/ ReadSet
    \/ \E p \in ProductIds : UpdateFind(p)
    \/ UpdateWrite
    \/ PurgeKeys
    \/ PurgeDel
    \/ CacheFlip
    \/ Tick

SpecTtl == InitCatalog /\ [][NextTtl]_vars

(***************************************************************************)
(* SpecKey: the cache key of the catalog endpoint, as a function of the    *)
(* query string.  Two query strings that differ in at most one parameter   *)
(* are drawn, and their keys are computed.                                 *)
(***************************************************************************)
QueryValues ==
    [page      |-> {Undef, Str("1"), Str("2")},
     limit     |-> {Undef, Str("10"), Str("20")},
     pageSize  |-> {Undef, Str("10")},
     category  |-> {Undef, Str("a")},
     search    |-> {Undef, Str(" b ")},
     minPrice  |-> {Undef, Str("0")},
     maxPrice  |-> {Undef, Str("9")},
     sortBy    |-> {Undef, Str("createdAt"), Str("price")},
     sortOrder |-> {Undef, Str("asc"), Str("desc")}]

Queries ==
    [page : QueryValues.page, limit : QueryValues.limit,
     pageSize : QueryValues.pageSize, category : QueryValues.category,
     search : QueryValues.search, minPrice : QueryValues.minPrice,
     maxPrice : QueryValues.maxPrice, sortBy : QueryValues.sortBy,
     sortOrder : QueryValues.sortOrder]

\* the endpoint computes the key of each query string (part_007 72-89,
\* part_006 195)
ComputeKeys ==
    /\ keyOut = <<>>
    /\ keyOut' = <<generateProductListCacheKey(ControllerOptions(keyIn[1])),
                   generateProductListCacheKey(ControllerOptions(keyIn[2]))>>
    /\ UNCHANGED <<product, orders, orderItems, rowLock, ord, adm, rdr, cache, cacheUp,
                   ver, done, lastRead, keyIn, sts, listRows, listOut, now>>

InitKey ==
    /\ orders = {}
    /\ orderItems = {}
    /\ rowLock = [p \in ProductIds |-> "none"]
    /\ ord = InitOrders
    /\ adm = IdleAdmin
    /\ rdr = IdleReader
    /\ cache = <<>>
    /\ ver = 0
    /\ done = NoneDone
    /\ lastRead = NoRead
    /\ product = [p \in ProductIds |-> LiveRow]
    /\ cacheUp = TRUE
    /\ \E q \in Queries, f \in Fields :
         \E v \in QueryValues[f] : keyIn = <<q, [q EXCEPT ![f] = v]>>
    /\ keyOut = <<>>
    /\ sts = IdleStatus
    /\ listRows = {}
    /\ listOut = <<>>
    /\ now = 0

NextKey == ComputeKeys

SpecKey == InitKey /\ [][NextKey]_vars

(***************************************************************************)
(* SpecPurge: catalog queries of any shape and product mutations over a    *)
(* cache that answers.                                                     *)
(***************************************************************************)
\* a query string that gives every parameter
FullQuery ==
    [page |-> Str("2"), limit |-> Str("20"), pageSize |-> Str("10"),
     category |-> Str("a"), search |-> Str(" b "), minPrice |-> Str("0"),
     maxPrice |-> Str("9"), sortBy |-> Str("price"), sortOrder |-> Str("asc")]

\* the shapes drawn: no parameter or every parameter, with one of them
\* given any of its values
PurgeQueries ==
    UNION {{[b EXCEPT ![f] = v] : v \in QueryValues[f]} :
             b \in {NoQuery, FullQuery}, f \in Fields}

InitPurge ==
    /\ orders = {}
    /\ orderItems = {}
    /\ rowLock = [p \in ProductIds |-> "none"]
    /\ ord = InitOrders
    /\ adm = IdleAdmin
    /\ rdr = IdleReader
    /\ cache = <<>>
    /\ ver = 0
    /\ done = NoneDone
    /\ lastRead = NoRead
    /\ product = [p \in ProductIds |-> IF p = "p1" THEN LiveRow ELSE AbsentRow]
    /\ cacheUp = TRUE
    /\ \E q \in PurgeQueries : keyIn = <<NoQuery, q>>
    /\ keyOut = <<>>
    /\ sts = IdleStatus
    /\ listRows = {}
    /\ listOut = <<>>
    /\ now = 0

NextPurge ==
    \/ ReadStart
    \/ ReadQuery
    \/ ReadSet
    \/ \E p \in ProductIds : CreateProduct(p)
    \/ \E p \in ProductIds : UpdateFind(p)
    \/ UpdateWrite
    \/ \E p \in ProductIds : DeleteFind(p)
    \/ DeleteWrite
    \/ PurgeKeys
    \/ PurgeDel

SpecPurge == InitPurge /\ [][NextPurge]_vars

(***************************************************************************)
(* The store query of getProductList (part_006 208-279) as a function of   *)
(* the query string and of the Product rows.  The query strings drawn are  *)
(* those the validators of GET /products let through (product.routes.ts    *)
(* 71-122): page an integer >= 1, limit and pageSize integers in 1..100,   *)
(* prices non-negative numbers, sortBy and sortOrder from their lists.     *)
(***************************************************************************)
Digits == "0123456789"

IsDigit(c) == \E d \in 0..9 : SubSeq(Digits, d + 1, d + 1) = c

DigitOf(c) == CHOOSE d \in 0..9 : SubSeq(Digits, d + 1, d + 1) = c

RECURSIVE ParseDigits(_, _)
ParseDigits(str, acc) ==
    IF str = "" \/ ~IsDigit(SubSeq(str, 1, 1)) THEN acc
    ELSE ParseDigits(SubSeq(str, 2, Len(str)), acc * 10 + DigitOf(SubSeq(str, 1, 1)))

\* parseInt(v.toString()): the number of the leading digits
parseInt(v) == IF v.t = "num" THEN v.n ELSE ParseDigits(v.s, 0)

\* parseFloat(v.toString()); the prices of the model are whole numbers
parseFloat(v) == IF v.t = "num" THEN v.n ELSE ParseDigits(v.s, 0)

UpperCase == "ABCDEFGHIJKLMNOPQRSTUVWXYZ"
LowerCase == "abcdefghijklmnopqrstuvwxyz"

LowerChar(c) ==
    IF \E i \in 1..26 : SubSeq(UpperCase, i, i) = c
    THEN LET i == CHOOSE k \in 1..26 : SubSeq(UpperCase, k, k) = c
         IN  SubSeq(LowerCase, i, i)
    ELSE c

RECURSIVE toLowerCase(_)
toLowerCase(str) ==
    IF str = "" THEN ""
    ELSE LowerChar(SubSeq(str, 1, 1)) \o toLowerCase(SubSeq(str, 2, Len(str)))

\* str has sub as a substring
Contains(str, sub) ==
    \E i \in 1..(Len(str) - Len(sub) + 1) : SubSeq(str, i, i + Len(sub) - 1) = sub

\* a match that also looks into the description
containsInNameOrDescription(row, term) ==
    \/ Contains(toLowerCase(row.name), toLowerCase(term))
    \/ Contains(toLowerCase(row.description), toLowerCase(term))

\* line 225: name: { contains: term, mode: 'insensitive' }
containsInsensitive(row, term) ==
    Contains(toLowerCase(row.name), toLowerCase(term))

\* a quotient rounded down
Floor(a, b) == a \div b

\* line 268: Math.ceil(totalProducts / itemsPerPage)
Ceil(a, b) == (a + b - 1) \div b

\* lines 208-248: page, page size, where clause and ordering
StoreQuery(options) ==
    LET page == IF options.page.t = "undef" THEN Num(1) ELSE options.page
        itemsPerPage == IF Truthy(options.limit) THEN parseInt(options.limit)
                        ELSE IF Truthy(options.pageSize) THEN parseInt(options.pageSize)
                        ELSE 10
        currentPage == parseInt(page)
        sortBy == IF options.sortBy.t = "undef" THEN Str("createdAt") ELSE options.sortBy
        sortOrder == IF options.sortOrder.t = "undef" THEN Str("desc")
                     ELSE options.sortOrder
    IN  [where |->
            [category |-> IF Truthy(options.category) THEN options.category ELSE Undef,
             name |-> IF Truthy(options.search) /\ Trim(options.search.s) # ""
                      THEN Str(Trim(options.search.s)) ELSE Undef,
             gte |-> IF options.minPrice.t # "undef"
                     THEN Num(parseFloat(options.minPrice)) ELSE Undef,
             lte |-> IF options.maxPrice.t # "undef"
                     THEN Num(parseFloat(options.maxPrice)) ELSE Undef],
         orderBy |-> [field |-> IF sortBy = Str("price") THEN "price"
                                ELSE IF sortBy = Str("name") THEN "name"
                                ELSE "createdAt",
                      dir |-> sortOrder.s],
         skip |-> (currentPage - 1) * itemsPerPage,
         take |-> itemsPerPage,
         currentPage |-> currentPage]

\* the store's evaluation of a where clause on a row
Satisfies(row, where) ==
    /\ where.category.t # "undef" => row.category = where.category.s
    /\ where.name.t # "undef" => containsInsensitive(row, where.name.s)
    /\ where.gte.t # "undef" => row.price >= where.gte.n
    /\ where.lte.t # "undef" => row.price <= where.lte.n

\* the store's collation of the names of the model
NameOrder == <<"Desk", "Laptop", "Laptop Stand">>

SortKey(row, field) ==
    IF field = "price" THEN row.price
    ELSE IF field = "name" THEN CHOOSE i \in DOMAIN NameOrder : NameOrder[i] = row.name
    ELSE row.createdAt

\* the orders in which the store may return a set of rows under ORDER BY:
\* rows with equal keys come in any order
Orderings(S, orderBy) ==
    {sq \in [1..Cardinality(S) -> S] :
        /\ \A i, j \in DOMAIN sq : i # j => sq[i] # sq[j]
        /\ \A i \in 1..(Len(sq) - 1) :
             IF orderBy.dir = "asc"
             THEN SortKey(sq[i], orderBy.field) <= SortKey(sq[i + 1], orderBy.field)
             ELSE SortKey(sq[i], orderBy.field) >= SortKey(sq[i + 1], orderBy.field)}

\* skip and take over the ordered rows
Page(sq, skip, take) ==
    IF skip >= Len(sq) \/ take = 0 THEN <<>>
    ELSE SubSeq(sq, skip + 1, IF skip + take < Len(sq) THEN skip + take ELSE Len(sq))

\* lines 195 and 208-279 for one query string: the key, the store query,
\* and the result assembled from findMany (the ordered rows sq) and count
ListOne(q, sq) ==
    LET options == ControllerOptions(q)
        query == StoreQuery(options)
        totalProducts == Cardinality({r \in listRows : Satisfies(r, query.where)})
    IN  [key |-> generateProductListCacheKey(options),
         query |-> [where |-> query.where, orderBy |-> query.orderBy,
                    skip |-> query.skip, take |-> query.take],
         result |-> [products |-> Page(sq, query.skip, query.take),
                     currentPage |-> query.currentPage,
                     pageSize |-> query.take,
                     totalPages |-> Ceil(totalProducts, query.take),
                     totalProducts |-> totalProducts]]

\* the rows a query string selects, in the orders the store may give them
Selected(q) ==
    LET query == StoreQuery(ControllerOptions(q))
    IN  Orderings({r \in listRows : Satisfies(r, query.where)}, query.orderBy)

\* getProductList on a cache miss, for each of the two query strings
ListProducts ==
    /\ listOut = <<>>
    /\ \E s1 \in Selected(keyIn[1]), s2 \in Selected(keyIn[2]) :
         listOut' = <<ListOne(keyIn[1], s1), ListOne(keyIn[2], s2)>>
    /\ UNCHANGED <<product, orders, orderItems, rowLock, ord, adm, rdr, cache, cacheUp,
                   ver, done, lastRead, keyIn, keyOut, sts, listRows, now>>

\* the Product rows of the listing
CatalogRows ==
    {[id |-> "p1", name |-> "Laptop", description |-> "portable computer",
      category |-> "a", price |-> 999, createdAt |-> 1],
     [id |-> "p2", name |-> "Laptop Stand", description |-> "aluminium stand",
      category |-> "b", price |-> 50, createdAt |-> 2],
     [id |-> "p3", name |-> "Desk", description |-> "desk for a laptop",
      category |-> "a", price |-> 999, createdAt |-> 3]}

ListValues ==
    [page      |-> {Undef, Str("2")},
     limit     |-> {Undef, Str("2")},
     pageSize  |-> {Undef, Str("1")},
     category  |-> {Undef, Str(""), Str("a")},
     search    |-> {Undef, Str("   "), Str(" laptop ")},
     minPrice  |-> {Undef, Str("500")},
     maxPrice  |-> {Undef, Str("999")},
     sortBy    |-> {Undef, Str("price"), Str("name")},
     sortOrder |-> {Undef, Str("asc")}]

ListQueries ==
    [page : ListValues.page, limit : ListValues.limit,
     pageSize : ListValues.pageSize, category : ListValues.category,
     search : ListValues.search, minPrice : ListValues.minPrice,
     maxPrice : ListValues.maxPrice, sortBy : ListValues.sortBy,
     sortOrder : ListValues.sortOrder]

\* everything but the listing's inputs
InitNoCalls ==
    /\ orders = {}
    /\ orderItems = {}
    /\ rowLock = [p \in ProductIds |-> "none"]
    /\ ord = InitOrders
    /\ adm = IdleAdmin
    /\ rdr = IdleReader
    /\ cache = <<>>
    /\ ver = 0
    /\ done = NoneDone
    /\ lastRead = NoRead
    /\ product = [p \in ProductIds |-> LiveRow]
    /\ cacheUp = TRUE
    /\ keyOut = <<>>
    /\ sts = IdleStatus
    /\ listOut = <<>>
    /\ now = 0

\* SpecList: one query string over any subset of the rows
InitList ==
    /\ InitNoCalls
    /\ listRows \in SUBSET CatalogRows
    /\ \E q \in ListQueries : keyIn = <<q, q>>

NextList == ListProducts

SpecList == InitList /\ [][NextList]_vars

\* SpecShape: two query strings over the same rows.  A category may hold
\* the separator of the key (the validator only trims it and bounds its
\* length); a price bound may be the string 0.
ShapeValues ==
    [page      |-> {Undef, Str("1")},
     limit     |-> {Undef, Str("10")},
     pageSize  |-> {Undef, Str("10")},
     category  |-> {Undef, Str("a"), Str("a:search:b")},
     search    |-> {Undef, Str("b")},
     minPrice  |-> {Undef},
     maxPrice  |-> {Undef, Str("0")},
     sortBy    |-> {Undef},
     sortOrder |-> {Undef}]

ShapeQueries ==
    [page : ShapeValues.page, limit : ShapeValues.limit,
     pageSize : ShapeValues.pageSize, category : ShapeValues.category,
     search : ShapeValues.search, minPrice : ShapeValues.minPrice,
     maxPrice : ShapeValues.maxPrice, sortBy : ShapeValues.sortBy,
     sortOrder : ShapeValues.sortOrder]

InitShape ==
    /\ InitNoCalls
    /\ listRows = CatalogRows
    /\ \E q1, q2 \in ShapeQueries : keyIn = <<q1, q2>>

NextShape == ListProducts

SpecShape == InitShape /\ [][NextShape]_vars

(***************************************************************************)
(* Properties of the order engine, checked under Spec.                     *)
(***************************************************************************)
\* no product update or delete call has been made in the run
NoMutation == adm.n = 0 /\ adm.pc = "idle"

AllOrdersFinished == \A o \in OrderIds : ord[o].pc \in {"idle", "done"}

\* the call passed the pre-check of all its lines and opened its transaction
PassedPreCheck(o) == ord[o].req # <<>> /\ Len(ord[o].items) = Len(ord[o].req)

Committed(o) == ord[o].end = "committed"

RECURSIVE SumQuantity(_)
SumQuantity(S) ==
    IF S = {} THEN 0
    ELSE LET l == CHOOSE x \in S : TRUE IN l.quantity + SumQuantity(S \ {l})

\* the OrderItem rows of committed orders for product p
CommittedLines(p) ==
    {l \in orderItems : l.productId = p /\ \E r \in orders : r.id = l.orderId}

\* C1: under concurrent createOrder calls alone, the stock of every product
\* is >= 0 in every reachable state.
C1_StockNeverNegative ==
    NoMutation => \A p \in ProductIds : product[p].stock >= 0

\* C2: of two createOrder calls for the same product that both passed the
\* pre-check, each quantity covered by the initial stock but not their sum,
\* exactly one commits and the other fails with insufficient stock.
C2_ExactlyOneCommits ==
    \A a, b \in OrderIds :
        ( /\ NoMutation
          /\ a # b
          /\ ord[a].pc = "done" /\ ord[b].pc = "done"
          /\ PassedPreCheck(a) /\ PassedPreCheck(b)
          /\ Len(ord[a].req) = 1 /\ Len(ord[b].req) = 1
          /\ ord[a].req[1].productId = ord[b].req[1].productId
          /\ ord[a].req[1].quantity + ord[b].req[1].quantity > InitStock )
        => \/ Committed(a) /\ ord[b].end = "tx_insufficient"
           \/ Committed(b) /\ ord[a].end = "tx_insufficient"

\* C3: with no product update or delete in the run, once the createOrder
\* calls have finished, initial stock minus current stock of every product
\* is the sum of the quantities of the committed orders' lines for it.
C3_DecrementsMatchLines ==
    (NoMutation /\ AllOrdersFinished) =>
        \A p \in ProductIds :
            InitStock - product[p].stock = SumQuantity(CommittedLines(p))

\* C3 witness: one order committed and another was rolled back in its
\* transaction
C3_Witness ==
    /\ NoMutation /\ AllOrdersFinished
    /\ \E a, b \in OrderIds : Committed(a) /\ ord[b].end = "tx_insufficient"

\* C4: an order that failed its in-transaction check has no Order row and
\* no OrderItem row, and the stock of every product it names is what the
\* other calls alone have made it: nothing of the order remains, also of
\* the lines processed before the failing one.
C4_FailedOrderLeavesNothing ==
    \A o \in OrderIds :
        ord[o].end \in {"tx_not_found", "tx_insufficient"} =>
            /\ \A r \in orders : r.id # o
            /\ \A l \in orderItems : l.orderId # o
            /\ \A k \in DOMAIN ord[o].req :
                 product[ord[o].req[k].productId].stock =
                     ord[o].asIf[ord[o].req[k].productId]

\* C4 witness: the second line failed after the first line had been
\* inserted and its stock decremented
C4_Witness ==
    \E o \in OrderIds :
        /\ ord[o].end = "tx_insufficient"
        /\ ord[o].i = 2

\* C5 as stated: the price of every committed line is the unit price at
\* the commit times the quantity.
C5_PriceAtCommit ==
    \A l \in orderItems : l.price = l.unitAtCommit * l.quantity

\* C5 as amended: the price of every committed line is the unit price read
\* by the order's pre-check times the quantity, whatever price the request
\* carries and whatever the price is when the order commits.
C5_PriceAtPreCheck ==
    \A l \in orderItems : l.price = l.unit * l.quantity

\* C5 witness: a committed line of quantity > 1 whose product changed its
\* price between the pre-check and the commit
C5_Witness ==
    \E l \in orderItems : l.unit # l.unitAtCommit /\ l.quantity > 1

\* C10: a createOrder call that fails because a product it names does not
\* exist gets status 404 and a message naming the product, at the pre-check
\* and at the re-read alike, and leaves no row of the order.
C10_NotFoundIs404 ==
    \A o \in OrderIds :
        ord[o].end \in {"pre_not_found", "tx_not_found"} =>
            /\ ord[o].resp.status = 404
            /\ ord[o].resp.product = ord[o].req[ord[o].i].productId
            /\ \A r \in orders : r.id # o
            /\ \A l \in orderItems : l.orderId # o

\* C11: a createOrder call that ends because a line's quantity exceeds the
\* stock read for it, at the pre-check or at the in-transaction re-read,
\* gets status 400 with the product, the available stock and the requested
\* quantity of that line, and leaves no Order row, no OrderItem row and no
\* stock change.
C11_InsufficientIs400 ==
    \A o \in OrderIds :
        ord[o].end \in {"pre_insufficient", "tx_insufficient"} =>
            LET line == ord[o].req[ord[o].i]
            IN  /\ ord[o].resp.status = 400
                /\ ord[o].resp.kind = "insufficient_stock"
                /\ ord[o].resp.product = line.productId
                /\ ord[o].resp.requested = line.quantity
                /\ ord[o].resp.available < line.quantity
                /\ \A r \in orders : r.id # o
                /\ \A l \in orderItems : l.orderId # o
                /\ \A k \in DOMAIN ord[o].req :
                     product[ord[o].req[k].productId].stock =
                         ord[o].asIf[ord[o].req[k].productId]

\* C11 witness: one order for 1 unit was refused at the pre-check and one
\* at the re-read, each with available stock 0
C11_Witness ==
    \E a, b \in OrderIds :
        /\ ord[a].end = "pre_insufficient"
        /\ ord[b].end = "tx_insufficient"
        /\ ord[a].resp.available = 0 /\ ord[a].resp.requested = 1
        /\ ord[b].resp.available = 0 /\ ord[b].resp.requested = 1

\* order a runs the re-read of its first line
FirstReRead(a) == ord[a].pc = "tx_read" /\ ord[a].i = 1 /\ ord'[a].pc # "tx_read"

\* C16: when other orders have committed decrements on a product after
\* order a passed its pre-check and before a's transaction re-reads it, the
\* re-read sees the decremented stock, and if that is below a's quantity a
\* fails with insufficient stock (400, naming that stock) and writes
\* nothing.
C16_ReReadSeesCommittedDecrement ==
    [][ \A a \in OrderIds :
          LET pid == ord[a].items[1].productId
          IN  ( /\ NoMutation
                /\ FirstReRead(a)
                /\ product[pid].stock < ord[a].items[1].quantity )
              => /\ ord'[a].end = "tx_insufficient"
                 /\ ord'[a].resp.status = 400
                 /\ ord'[a].resp.available = product[pid].stock
                 /\ ord'[a].resp.available = ord[a].asIf[pid]
                 /\ ord'[a].txItems = <<>>
                 /\ UNCHANGED <<product, orders, orderItems>> ]_vars

\* C16 witness: an order failed at the re-read of its first line after the
\* other order had committed
C16_Witness ==
    \E a, b \in OrderIds :
        /\ NoMutation
        /\ Committed(b)
        /\ ord[a].end = "tx_insufficient" /\ ord[a].i = 1
        /\ ord[a].resp.available < InitStock
RECURSIVE SumPrice(_)
SumPrice(S) ==
    IF S = {} THEN 0
    ELSE LET l == CHOOSE x \in S : TRUE IN l.price + SumPrice(S \ {l})

\* the transaction of order o commits in this step
CommitStep(o) == ord[o].end # "committed" /\ ord'[o].end = "committed"

\* C17: when an order commits, it has one Order row, with status pending
\* and a totalPrice equal to the sum of the prices of its OrderItem rows,
\* and exactly one OrderItem row per requested line, with that line's
\* productId and quantity.
C17_OrderMatchesItsLines ==
    [][ \A o \in OrderIds :
          CommitStep(o) =>
            LET rows == {r \in orders' : r.id = o}
                lines == {l \in orderItems' : l.orderId = o}
                req == ord'[o].req
            IN  /\ Cardinality(rows) = 1
                /\ \A r \in rows : /\ r.status = "pending"
                                    /\ r.totalPrice = SumPrice(lines)
                /\ Cardinality(lines) = Len(req)
                /\ \A k \in DOMAIN req :
                      \E l \in lines : /\ l.line = k
                                        /\ l.productId = req[k].productId
                                        /\ l.quantity = req[k].quantity ]_vars

\* C17 witness: a committed order of two lines whose total is the sum of
\* two different line prices
C17_Witness ==
    \E o \in OrderIds :
        /\ Committed(o)
        /\ Len(ord[o].req) = 2
        /\ \E r \in orders, l1, l2 \in orderItems :
              /\ r.id = o /\ l1.orderId = o /\ l2.orderId = o
              /\ l1.line = 1 /\ l2.line = 2
              /\ l1.price # l2.price
              /\ r.totalPrice = l1.price + l2.price
\* the quantity a request asks of product p, over all its lines
RECURSIVE RequestedQuantity(_, _)
RequestedQuantity(req, p) ==
    IF req = <<>> THEN 0
    ELSE (IF Head(req).productId = p THEN Head(req).quantity ELSE 0)
         + RequestedQuantity(Tail(req), p)

\* no other createOrder call and no product mutation has started
RanAlone(o) == NoMutation /\ \A h \in OrderIds \ {o} : ord[h].pc = "idle"

\* C18: a createOrder call of one line whose quantity is the product's
\* whole stock, run alone, ends committed; and the step that commits an
\* order takes from the stock of every product exactly the quantity the
\* request asks of it, which is nothing for a product it does not name.
C18_WholeStockOrderSucceeds ==
    /\ [](\A o \in OrderIds :
            ( /\ RanAlone(o)
              /\ ord[o].pc = "done"
              /\ Len(ord[o].req) = 1
              /\ ord[o].req[1].quantity = InitStock )
            => /\ Committed(o)
               /\ ord[o].resp.status = 201
               /\ product[ord[o].req[1].productId].stock = 0)
    /\ [][ \A o \in OrderIds :
            CommitStep(o) =>
              \A p \in ProductIds :
                product'[p].stock =
                    product[p].stock - RequestedQuantity(ord'[o].req, p) ]_vars

\* C18 witness: an order for the whole stock of a product, run alone, has
\* committed and the other product's stock is untouched
C18_Witness ==
    \E o \in OrderIds :
        /\ RanAlone(o)
        /\ Committed(o)
        /\ Len(ord[o].req) = 1
        /\ ord[o].req[1].quantity = InitStock
        /\ product[ord[o].req[1].productId].stock = 0
        /\ \A p \in ProductIds \ {ord[o].req[1].productId} :
              product[p].stock = InitStock
\* the UPDATE or the DELETE of a product mutation runs in this step
MutationWrite == adm.pc \in {"upd_write", "del_write"} /\ adm' # adm

\* C19: the write of updateProduct or deleteProduct leaves the totalPrice
\* of every Order row and the price of every OrderItem row that exists
\* after it as they were; and the price of a line is always the unit price
\* read when its order was placed times its quantity, whatever the
\* product's price is now.
C19_MutationKeepsOrderPrices ==
    /\ [][ MutationWrite =>
            /\ \A r \in orders :
                 \E r2 \in orders' : r2.id = r.id /\ r2.totalPrice = r.totalPrice
            /\ \A l \in orderItems, l2 \in orderItems' :
                 (l2.orderId = l.orderId /\ l2.line = l.line)
                    => l2.price = l.price ]_vars
    /\ [](\A l \in orderItems : l.price = l.unit * l.quantity)

\* C19 witness: a product's price was changed after an order for it had
\* committed, and the order's line still has the price of the old unit price
C19_Witness ==
    /\ done.product > done.order
    /\ done.order > 0
    /\ \E l \in orderItems :
          /\ product[l.productId].state = "live"
          /\ product[l.productId].price # l.unit
          /\ l.price = l.unit * l.quantity
\* the OrderItem rows of an order in a table
LinesOf(items, id) == {l \in items : l.orderId = id}

\* an updateOrderStatus call returns in this step with a failure
StatusRejected == sts'.n > sts.n /\ sts'.resp.status # 200

DefaultValue ==
    [page |-> Str("1"), limit |-> Str("10"), pageSize |-> Str("10"),
     sortBy |-> Str("createdAt"), sortOrder |-> Str("desc")]

\* b is a with parameter f given explicitly at its default value; a page
\* size is at its default only when no other page size is given
ExplicitDefault(a, b, f) ==
    /\ a[f] = Undef
    /\ b[f] = DefaultValue[f]
    /\ \A g \in Fields \ {f} : a[g] = b[g]
    /\ f \in {"limit", "pageSize"} => a.limit = Undef /\ a.pageSize = Undef

\* C8: the key is deterministic and default-insensitive: query shapes with
\* the same normalized parameters have the same key, and so have two shapes
\* of which one gives page, page size, sortBy or sortOrder explicitly at
\* its default value and the other omits it.
C8_KeyDefaultInsensitive ==
    keyOut # <<>> =>
        /\ ControllerOptions(keyIn[1]) = ControllerOptions(keyIn[2])
             => keyOut[1] = keyOut[2]
        /\ \A f \in DOMAIN DefaultValue :
             ( \/ ExplicitDefault(keyIn[1], keyIn[2], f)
               \/ ExplicitDefault(keyIn[2], keyIn[1], f) )
             => keyOut[1] = keyOut[2]


C7_ReadAfterOrderCommit ==
    lastRead.hit => lastRead.res.setAt >= lastRead.start.order

\* the body has the envelope: a success flag and a message
Enveloped(body) == body.success \in {"true", "false"} /\ body.message = Set

\* the body does not carry a payload and an error list together
PayloadXorErrors(body) == ~(body.object = Set /\ body.errors = Set)

ReturnsFromLookup == rdr.pc = "idle" /\ rdr'.pc = "idle" /\ rdr'.n = rdr.n + 1

\* a getProductList call goes from its cache lookup on to the store
GoesOnToStore == rdr.pc = "idle" /\ rdr'.pc = "query"

\* C15: a getProductList call whose key is in the cache returns the cached
\* value from its lookup step, without a store query and without a cache
\* write; only a call whose key the cache does not give goes to the store.
C15_HitTouchesNothing ==
    [][ /\ ReturnsFromLookup =>
             /\ lastRead'.hit /\ lastRead'.status = 200
             /\ cacheUp /\ lastRead'.key \in DOMAIN cache
             /\ lastRead'.res = cache[lastRead'.key]
             /\ cache' = cache
             /\ product' = product
        /\ GoesOnToStore => ~(cacheUp /\ rdr'.key \in DOMAIN cache) ]_vars

\* C15 witness: the second call was served the entry the first had cached
C15_Witness ==
    /\ lastRead.hit
    /\ lastRead.status = 200
    /\ rdr.n = 2 /\ rdr.pc = "idle"
    /\ lastRead.key \in DOMAIN cache
    /\ lastRead.res = cache[lastRead.key]


(***************************************************************************)
(* Properties of the calls without a cache, checked under SpecCacheDown.   *)
(***************************************************************************)
\* C9: when every cache operation fails, every getProductList call returns
\* 200 with a result computed from the store during the call, every product
\* mutation and every order ends as the store alone decides (a successful
\* mutation is committed and completed), and no call ends with an error
\* that is not a store or input error.
C9_CacheDownIsAbsorbed ==
    /\ cache = <<>>
    /\ lastRead.status # 0 =>
         /\ lastRead.status = 200
         /\ ~lastRead.hit
         /\ lastRead.res.ver >= lastRead.startVer
    /\ adm.resp.status \in {0, 200, 201, 403, 404, 500}
    /\ adm.resp.status = 500 => adm.resp.kind = "store_error"
    /\ (adm.pc = "idle" /\ adm.resp.kind = "ok") => done.product \in 1..ver
    /\ \A o \in OrderIds :
         /\ ord[o].resp.status \in {0, 201, 400, 404, 500}
         /\ Committed(o) <=> (\E r \in orders : r.id = o)
         /\ ord[o].resp.status = 201 <=> Committed(o)

\* C9 witness: with the cache down, a getProductList call, a product
\* mutation and an order have all completed successfully
C9_Witness ==
    /\ ~cacheUp
    /\ lastRead.status = 200
    /\ adm.pc = "idle" /\ adm.resp.kind = "ok"
    /\ Committed("o1")


(***************************************************************************)
(* Properties of the order route, checked under SpecRoute.                 *)
(***************************************************************************)
\* the body breaks the contract of an order request: the product list is
\* missing or empty, or a line has an empty productId or a quantity < 1
BreaksContract(body) ==
    \/ body.products.t # "array"
    \/ body.products.a = <<>>
    \/ \E k \in DOMAIN body.products.a :
          LET l == body.products.a[k]
          IN  \/ l.productId \in {Undef, Str("")}
              \/ l.quantity = Undef
              \/ l.quantity.n < 1

\* C13: an order request whose product list is missing or empty, or that
\* has a line with an empty productId or a quantity < 1, ends with status
\* 400 before any of its lines is looked up, leaving no row and no stock
\* change; and no such request reaches the pre-check.
C13_InvalidBodyIs400 ==
    \A o \in OrderIds :
        /\ ord[o].end \in {"invalid", "service_invalid"} =>
             /\ BreaksContract(ord[o].body)
             /\ ord[o].resp.status = 400
             /\ ord[o].i = 0 /\ ord[o].items = <<>>
             /\ \A r \in orders : r.id # o
             /\ \A l \in orderItems : l.orderId # o
             /\ \A p \in ProductIds : product[p].stock = ord[o].asIf[p]
        /\ \A k \in DOMAIN ord[o].req :
             ord[o].req[k].productId # "" /\ ord[o].req[k].quantity >= 1

\* C13 witness: a body whose second line has quantity 0 was rejected after
\* the other order had committed
C13_Witness ==
    \E o, h \in OrderIds :
        /\ ord[o].end = "invalid"
        /\ ord[o].body.products.t = "array"
        /\ Len(ord[o].body.products.a) = 2
        /\ ord[o].body.products.a[2].quantity = Num(0)
        /\ ord[o].body.products.a[1].quantity = Num(1)
        /\ Committed(h)


(***************************************************************************)
(* Properties of the purge, checked under SpecPurge.                       *)
(***************************************************************************)
\* the key starts with the prefix of the catalog keys (redis.util.ts 113)
HasCatalogPrefix(key) == Len(key) >= 9 /\ SubSeq(key, 1, 9) = "products:"

\* the step in which the invalidation of a mutation completes, having run
\* with the cache reachable and with no cache write between KEYS and DEL
CleanPurgeCompletes ==
    /\ adm.pc \in {"purge_keys", "purge_del"}
    /\ adm'.pc = "idle"
    /\ done'.purged = adm.commitVer
    /\ ~adm.setDuring

\* C14: when the invalidation step of a product create, update or delete
\* completes, with the cache reachable and no cache write concurrent with
\* it, the cache holds no key with the catalog prefix; and the purge pattern
\* matches the key of every query shape.
C14_PurgeRemovesEveryCatalogKey ==
    /\ [](\A q \in ReaderQueries :
            MatchesPattern(generateProductListCacheKey(ControllerOptions(q))))
    /\ [][CleanPurgeCompletes =>
            \A k \in DOMAIN cache' : ~HasCatalogPrefix(k)]_vars

\* C14 witness: an invalidation step has completed that removed the cached
\* entries of two different query shapes, and the cache is empty
C14_Witness ==
    /\ adm.pc = "idle"
    /\ done.purged > 0
    /\ Cardinality(done.deleted) = 2
    /\ DOMAIN cache = {}

(***************************************************************************)
(* Properties of the listing query, checked under SpecList.                *)
(***************************************************************************)
\* the page size a query string asks for
ExpectedPageSize(q) ==
    IF q.limit.t # "undef" THEN parseInt(q.limit)
    ELSE IF q.pageSize.t # "undef" THEN parseInt(q.pageSize)
    ELSE 10

ExpectedPage(q) == IF q.page.t # "undef" THEN parseInt(q.page) ELSE 1

\* some stretch of the name is the term, letter case aside
NameHas(name, term) ==
    \E i \in 1..Len(name), j \in 0..Len(name) :
        j >= i - 1 /\ toLowerCase(SubSeq(name, i, j)) = toLowerCase(term)

\* the row passes every filter the query string gives
MeetsFilters(row, q) ==
    /\ (q.category.t # "undef" /\ q.category.s # "") => row.category = q.category.s
    /\ (q.search.t # "undef" /\ Trim(q.search.s) # "")
          => NameHas(row.name, Trim(q.search.s))
    /\ q.minPrice.t # "undef" => row.price >= parseFloat(q.minPrice)
    /\ q.maxPrice.t # "undef" => row.price <= parseFloat(q.maxPrice)

Matching(q) == {r \in listRows : MeetsFilters(r, q)}

\* row a comes strictly before row b in the order the query string asks for
Before(a, b, q) ==
    LET field == IF q.sortBy.t = "undef" THEN "createdAt" ELSE q.sortBy.s
    IN  IF q.sortOrder.t # "undef" /\ q.sortOrder.s = "asc"
        THEN SortKey(a, field) < SortKey(b, field)
        ELSE SortKey(a, field) > SortKey(b, field)

\* C21: on a miss the result has totalProducts = the number of matching
\* rows, the page size asked for (limit, else pageSize, else 10), the page
\* asked for (else 1), totalPages = the least number of pages that hold
\* them all, and as products the matching rows of ranks offset + 1 ..
\* offset + pageSize, as far as there are any, in the requested order.
C21_PageOfMatchingProducts ==
    listOut # <<>> =>
        LET q == keyIn[1]
            res == listOut[1].result
            size == ExpectedPageSize(q)
            offset == (ExpectedPage(q) - 1) * size
            matching == Matching(q)
            total == Cardinality(matching)
            left == IF total > offset THEN total - offset ELSE 0
        IN  /\ res.totalProducts = total
            /\ res.pageSize = size
            /\ res.currentPage = ExpectedPage(q)
            /\ res.totalPages * size >= total
            /\ (res.totalPages - 1) * size < total
            /\ Len(res.products) = IF left < size THEN left ELSE size
            /\ \A i \in DOMAIN res.products :
                  LET x == res.products[i]
                  IN  /\ x \in matching
                      /\ Cardinality({r \in matching : Before(r, x, q)})
                            <= offset + i - 1
                      /\ offset + i
                            <= Cardinality({r \in matching : ~Before(x, r, q)})
            /\ \A i, j \in DOMAIN res.products :
                  i < j => /\ res.products[i] # res.products[j]
                           /\ ~Before(res.products[j], res.products[i], q)

\* C21 witness: the second page of three rows, two to a page, holds the
\* third row
C21_Witness ==
    /\ listOut # <<>>
    /\ listOut[1].result.totalProducts = 3
    /\ listOut[1].result.pageSize = 2
    /\ listOut[1].result.currentPage = 2
    /\ listOut[1].result.totalPages = 2
    /\ Len(listOut[1].result.products) = 1

\* C22: on a miss the rows counted are exactly those that pass every
\* filter given (category equal, name holding the trimmed search term in
\* any letter case, price within the inclusive bounds), every row returned
\* is one of them, and a page that has room for all returns them all.
C22_ExactlyTheMatchingProducts ==
    listOut # <<>> =>
        LET q == keyIn[1]
            res == listOut[1].result
            matching == Matching(q)
        IN  /\ res.totalProducts = Cardinality(matching)
            /\ Range(res.products) \subseteq matching
            /\ (ExpectedPage(q) = 1 /\ ExpectedPageSize(q) >= Cardinality(matching))
                  => Range(res.products) = matching

\* C22 witness: search Laptop with prices from 500 to 999 over Laptop at
\* 999, Laptop Stand at 50 and a Desk whose description names a laptop
\* returns Laptop only
C22_Witness ==
    /\ listOut # <<>>
    /\ listRows = CatalogRows
    /\ keyIn[1].search = Str(" laptop ")
    /\ keyIn[1].minPrice = Str("500")
    /\ keyIn[1].maxPrice = Str("999")
    /\ keyIn[1].category = Undef
    /\ listOut[1].result.totalProducts = 1
    /\ Len(listOut[1].result.products) = 1
    /\ listOut[1].result.products[1].name = "Laptop"

(***************************************************************************)
(* Properties of key and store query together, checked under SpecShape.    *)
(***************************************************************************)
\* C27: two query strings that get the same cache key are translated into
\* the same store query: same where clause, ordering, skip and take.
C27_SameKeySameQuery ==
    listOut # <<>> =>
        (listOut[1].key = listOut[2].key => listOut[1].query = listOut[2].query)

(***************************************************************************)
(* Properties of the listing under store failures, checked under           *)
(* SpecStoreFail.                                                          *)
(***************************************************************************)
\* the call leaves its store query, or its cache write, and returns
LeavesQuery == rdr.pc = "query" /\ rdr'.pc = "idle"

LeavesCacheWrite == rdr.pc = "set" /\ rdr'.pc = "idle"

\* C23: a getProductList call whose store query fails answers with the
\* store's error, returns no result and leaves the cache as it was; a call
\* that reaches its cache write answers 200 with the result it computed,
\* also when Redis does not take the write.
C23_StoreErrorFailsCacheErrorDoesNot ==
    [][ /\ LeavesQuery =>
             /\ lastRead'.status = 500
             /\ lastRead'.res = NoEntry
             /\ lastRead'.key = rdr.key
             /\ cache' = cache
        /\ LeavesCacheWrite =>
             /\ lastRead'.status = 200
             /\ lastRead'.res = rdr.res
             /\ lastRead'.key = rdr.key
             /\ ~cacheUp => cache' = cache ]_vars

\* C23 witness: the second of two calls failed in the store while Redis
\* was away, and nothing is cached
C23_Witness ==
    /\ rdr.n = 2
    /\ rdr.pc = "idle"
    /\ lastRead.status = 500
    /\ ~cacheUp
    /\ DOMAIN cache = {}

(***************************************************************************)
(* Properties of the cache's time-to-live, checked under SpecTtl.          *)
(***************************************************************************)
\* C24: every cache entry is written to expire 3600 seconds after its
\* write, and a getProductList call that returns a cached result returns
\* one written less than 3600 seconds before.
C24_NoHitOlderThanTtl ==
    /\ [](\A k \in DOMAIN cache : cache[k].exp = cache[k].at + 3600)
    /\ [][ ReturnsFromLookup =>
             /\ lastRead'.res.at >= 0
             /\ now - lastRead'.res.at < 3600 ]_vars

\* C24 witness: an entry written at 0 was served from the cache later, and
\* with no purge by any mutation it is gone once 3600 seconds have passed
C24_Witness ==
    /\ now >= 3600
    /\ lastRead.hit
    /\ lastRead.res.at = 0
    /\ NoMutation
    /\ DOMAIN cache = {}

(***************************************************************************)
(* Properties of a listing that overlaps a product update, checked under   *)
(* SpecPurge, where Redis always answers and no order is placed.           *)
(***************************************************************************)
\* no product has been created or deleted: a mutation, if any, was an update
OnlyUpdates == product["p1"].state = "live" /\ product["p2"].state = "absent"

\* C25: once a getProductList call and a product update have both
\* completed, however they overlapped, every cache entry holds what the
\* store now returns.
C25_NoStaleEntryAfterOverlap ==
    (OnlyUpdates /\ rdr.pc = "idle" /\ adm.pc = "idle") =>
        \A k \in DOMAIN cache : cache[k].products = ProductListResult.products

(***************************************************************************)
(* Properties of orders with several lines for one product, checked under  *)
(* Spec.                                                                   *)
(***************************************************************************)
\* the request names product p on two or more lines
NamedTwice(req, p) ==
    \E i, j \in DOMAIN req : i # j /\ req[i].productId = p /\ req[j].productId = p

\* C26: an order that names a product on two or more lines commits only
\* when the committed stock covers the sum of those lines; one that passed
\* the pre-check and did not commit has left no row and no stock change;
\* and run alone with a sum above the stock, it fails its in-transaction
\* check although each line alone passed the pre-check.
C26_DuplicateLinesAreSummed ==
    /\ [][ \A o \in OrderIds, p \in ProductIds :
             (CommitStep(o) /\ NamedTwice(ord'[o].req, p))
                => RequestedQuantity(ord'[o].req, p) <= product[p].stock ]_vars
    /\ [](\A o \in OrderIds, p \in ProductIds :
            ( /\ ord[o].pc = "done"
              /\ NamedTwice(ord[o].req, p)
              /\ PassedPreCheck(o)
              /\ ~Committed(o) )
            => /\ \A r \in orders : r.id # o
               /\ \A l \in orderItems : l.orderId # o
               /\ product[p].stock = ord[o].asIf[p])
    /\ [](\A o \in OrderIds, p \in ProductIds :
            ( /\ RanAlone(o)
              /\ ord[o].pc = "done"
              /\ NamedTwice(ord[o].req, p)
              /\ RequestedQuantity(ord[o].req, p) > InitStock )
            => /\ PassedPreCheck(o)
               /\ ord[o].end = "tx_insufficient"
               /\ ord[o].resp.status = 400
               /\ product[p].stock = InitStock)

\* C26 witness: an order run alone with two lines for one product, whose
\* sum is above the stock, was rolled back in its transaction
C26_Witness ==
    \E o \in OrderIds, p \in ProductIds :
        /\ RanAlone(o)
        /\ NamedTwice(ord[o].req, p)
        /\ RequestedQuantity(ord[o].req, p) > InitStock
        /\ ord[o].end = "tx_insufficient"
        /\ product[p].stock = InitStock
        /\ orders = {}

(***************************************************************************)
(* Termination of createOrder, checked under SpecLive.                     *)
(***************************************************************************)
\* C28: every createOrder call that has started ends, and when it has
\* ended it holds no row lock and either committed or left no Order row
\* and no OrderItem row.
C28_EveryOrderTerminates ==
    /\ \A o \in OrderIds : (ord[o].pc # "idle") ~> (ord[o].pc = "done")
    /\ [](\A o \in OrderIds :
            ord[o].pc = "done" =>
                /\ \A p \in ProductIds : rowLock[p] # o
                /\ \/ Committed(o)
                   \/ /\ \A r \in orders : r.id # o
                      /\ \A l \in orderItems : l.orderId # o)

\* C28 witness: two orders named the same two products in opposite line
\* order; one was ended by the deadlock detector and the other committed
C28_Witness ==
    \E a, b \in OrderIds :
        /\ ord[a].end = "deadlock"
        /\ Committed(b)
        /\ Len(ord[a].req) = 2 /\ Len(ord[b].req) = 2
        /\ ord[a].req[1].productId = ord[b].req[2].productId
        /\ ord[a].req[2].productId = ord[b].req[1].productId
        /\ ord[a].req[1].productId # ord[a].req[2].productId
        /\ \A l \in orderItems : l.orderId = b

(***************************************************************************)
(* Order of store write and cache purge in the product mutations, checked  *)
(* under SpecAdmin.                                                        *)
(***************************************************************************)
\* the mutation in progress has written to the store
HasWritten == adm.commitVer >= 1 /\ adm.commitVer <= ver

\* a step in which the mutation returns with an error
FailingReturn ==
    /\ adm'.n = adm.n + 1
    /\ adm'.resp.kind # "ok"

\* C29: the purge of a mutation (its KEYS and its DEL) runs only after the
\* mutation's store write, and a mutation that ends with an error (404,
\* 403 or a store error) has written nothing and deleted no cache key.
C29_PurgeOnlyAfterWrite ==
    /\ [](adm.pc \in {"purge_keys", "purge_del"} => HasWritten)
    /\ [][(adm.pc = "purge_del" /\ cache' # cache) => HasWritten]_vars
    /\ [][FailingReturn =>
            /\ adm'.resp.status \in {403, 404, 500}
            /\ ~HasWritten
            /\ adm.keys = {}
            /\ product' = product
            /\ orderItems' = orderItems
            /\ cache' = cache
            /\ done'.deleted = done.deleted]_vars

\* C29 witness: a call was refused with 403 while the cache held a product
\* list; the list is still cached and no row has changed
C29_Witness ==
    /\ adm.n = 1
    /\ adm.pc = "idle"
    /\ adm.resp.status = 403
    /\ DOMAIN cache # {}
    /\ done.deleted = {}
    /\ product = [p \in ProductIds |-> IF p = "p1" THEN LiveRow ELSE AbsentRow]

(***************************************************************************)
(* The owner of an order, checked under SpecOwner.                         *)
(***************************************************************************)
\* C30: the owner of every order is the authenticated user of its request,
\* whatever userId the body carried, so that two orders of one user have
\* one owner; a request without an authenticated user is answered 401 and
\* creates no order, no line and changes no stock.
C30_OwnerIsPrincipal ==
    /\ \A r \in orders : ord[r.id].user # Null /\ r.userId = ord[r.id].user
    /\ \A ra, rb \in orders :
          ord[ra.id].user = ord[rb.id].user => ra.userId = rb.userId
    /\ \A o \in OrderIds :
          ord[o].user = Null =>
              /\ ord[o].pc \in {"idle", "done"}
              /\ ord[o].pc = "done" => ord[o].resp.status = 401
              /\ ord[o].txDec = NoDec
              /\ \A r \in orders : r.id # o
              /\ \A l \in orderItems : l.orderId # o

\* C30 witness: one user placed the same order twice, once with another
\* user's id in the body and once with none; both orders are the user's
C30_Witness ==
    /\ ord["o1"].user = "u1" /\ ord["o2"].user = "u1"
    /\ ord["o1"].req = ord["o2"].req
    /\ ord["o1"].body = [userId |-> "u2"] @@ IdleOrder.body
    /\ ord["o2"].body = IdleOrder.body
    /\ Committed("o1") /\ Committed("o2")
    /\ \A r \in orders : r.userId = "u1"

====
